---- MODULE Spec2Model ----
(***************************************************************************)
(* Model of kernel/register.cc: the pass registry, the command-line        *)
(* tokenizer, the dispatcher, the scoped-call wrappers and the frontend    *)
(* and backend drivers.                                                    *)
(*                                                                         *)
(* A std::string is a sequence of one-character strings, a                 *)
(* std::vector<std::string> a sequence of those, a std::map a function.    *)
(***************************************************************************)
EXTENDS Integers, Sequences, FiniteSets, TLC

VARIABLES
    objs,                   \* the constructed Pass objects, by address 1..Len(objs)
    first_queued_pass,      \* REGISTER_INTERN::first_queued_pass (0 is NULL)
    pass_register,          \* REGISTER_INTERN::pass_register
    frontend_register,      \* REGISTER_INTERN::frontend_register
    backend_register,       \* REGISTER_INTERN::backend_register
    dropped,                \* history: the objects a done_register removed
    selection_stack,        \* design->selection_stack
    selected_active_module, \* design->selected_active_module
    echo_mode,              \* REGISTER_INTERN::echo_mode
    trace,                  \* history: what the last operation did, in order
    steps,                  \* history: the number of calls made so far
    outcome,                \* how the last operation ended
    lastop,                 \* the last operation and its inputs
    current_script_file,    \* Frontend::current_script_file
    last_here_document,     \* Frontend::last_here_document
    next_args,              \* Frontend::next_args
    streams,                \* the FILE objects fopen and fmemopen made
    stdout_stream           \* the process's standard output

regVars == <<objs, first_queued_pass, pass_register, frontend_register,
             backend_register, dropped>>

designVars == <<selection_stack, selected_active_module, echo_mode, trace,
                steps>>

ioVars == <<current_script_file, last_here_document, next_args, streams,
            stdout_stream>>

vars == <<objs, first_queued_pass, pass_register, frontend_register,
          backend_register, dropped, selection_stack, selected_active_module,
          echo_mode, trace, steps, outcome, lastop, current_script_file,
          last_here_document, next_args, streams, stdout_stream>>

\* the null FILE pointer
NULL == [kind |-> "NULL"]

\* FILE *current_script_file = NULL: no script is being read
NoScript == [open |-> FALSE, data |-> <<>>, pos |-> 0]

\* the static initial values of the drivers' state
IoInit ==
    /\ current_script_file = NoScript
    /\ last_here_document = <<>>
    /\ next_args = <<>>
    /\ streams = <<>>
    /\ stdout_stream = [open |-> TRUE, written |-> <<>>]

----------------------------------------------------------------------------
(* Bounds *)

MaxObjs == 4        \* Pass objects constructed, the two built-in ones included
MaxOps == 2         \* calls into the kernel in one behaviour
MaxLineLen == 5     \* characters of an enumerated command line
MaxWords == 2       \* words before, and after, a token ending in semicolons
MaxScriptLen == 5   \* characters left in the script a here document reads
MaxFrontArgs == 3   \* tokens after the command name of a frontend
MaxBackArgs == 2    \* tokens after the command name of a backend
MaxDrvArgs == 3     \* tokens after the name of a frontend dispatched by name
MaxSegs == 3        \* commands of an enumerated line of several commands

----------------------------------------------------------------------------
(* Strings *)

s_help  == <<"h","e","l","p">>
s_echo  == <<"e","c","h","o">>
s_read_ == <<"r","e","a","d","_">>
s_write_ == <<"w","r","i","t","e","_">>

\* std::string::substr(pos): the characters from index pos (0-based) on
substr1(s, pos) == IF pos >= Len(s) THEN <<>> ELSE SubSeq(s, pos + 1, Len(s))

\* std::string::substr(pos, n)
substr(s, pos, n) ==
    IF pos >= Len(s) THEN <<>>
    ELSE SubSeq(s, pos + 1, IF pos + n > Len(s) THEN Len(s) ELSE pos + n)

\* name.rfind("=", 0) == 0: the name starts with "="
StartsWithEq(name) == Len(name) > 0 /\ name[1] = "="

\* std::map::count
count(reg, key) == IF key \in DOMAIN reg THEN 1 ELSE 0

\* std::map::operator[] used as an assignment
MapSet(reg, key, val) ==
    [k \in DOMAIN reg \cup {key} |-> IF k = key THEN val ELSE reg[k]]

EmptyMap == [k \in {} |-> 0]

----------------------------------------------------------------------------
(* Construction: Pass::Pass, Frontend::Frontend, Backend::Backend *)

\* Pass::Pass: the object is linked in front of the queue
NewPass(kind, pass_name, fmt_name, fq) ==
    [kind |-> kind, pass_name |-> pass_name, fmt_name |-> fmt_name,
     next_queued_pass |-> fq, call_counter |-> 0]

PassCtor(name, fq) == NewPass("pass", name, <<>>, fq)

FrontendCtor(name, fq) ==
    NewPass("frontend",
            IF StartsWithEq(name) THEN substr1(name, 1) ELSE s_read_ \o name,
            IF StartsWithEq(name) THEN substr1(name, 1) ELSE name,
            fq)

BackendCtor(name, fq) ==
    NewPass("backend",
            IF StartsWithEq(name) THEN substr1(name, 1) ELSE s_write_ \o name,
            IF StartsWithEq(name) THEN substr1(name, 1) ELSE name,
            fq)

Ctor(kind, name, fq) ==
    CASE kind = "pass"     -> PassCtor(name, fq)
      [] kind = "frontend" -> FrontendCtor(name, fq)
      [] kind = "backend"  -> BackendCtor(name, fq)

\* The static objects HelpPass and EchoPass of register.cc, constructed in
\* the order of their definitions
BuiltinObjs ==
    <<PassCtor(s_help, 0), PassCtor(s_echo, 1)>>

----------------------------------------------------------------------------
(* Registration: run_register, init_register, done_register.               *)
(* r is the record of the three maps, the queue head and the failure flag  *)
(* (log_assert is fatal).                                                  *)

\* mutant of Pass_run_register: no assertion, the entry is overwritten
PassRunRegisterOverwrite(r, os, id) ==
    [r EXCEPT !.pass_register = MapSet(@, os[id].pass_name, id)]

Pass_run_register(r, os, id) ==
    IF count(r.pass_register, os[id].pass_name) # 0
    THEN [r EXCEPT !.fatal = TRUE]
    ELSE [r EXCEPT !.pass_register = MapSet(@, os[id].pass_name, id)]

\* mutant of Frontend_run_register: the format map is never written
FrontendRunRegisterNoFormat(r, os, id) ==
    IF count(r.pass_register, os[id].pass_name) # 0
    THEN [r EXCEPT !.fatal = TRUE]
    ELSE [r EXCEPT !.pass_register = MapSet(@, os[id].pass_name, id)]

Frontend_run_register(r, os, id) ==
    IF count(r.pass_register, os[id].pass_name) # 0
    THEN [r EXCEPT !.fatal = TRUE]
    ELSE LET r1 == [r EXCEPT !.pass_register = MapSet(@, os[id].pass_name, id)]
         IN  IF count(r1.frontend_register, os[id].fmt_name) # 0
             THEN [r1 EXCEPT !.fatal = TRUE]
             ELSE [r1 EXCEPT !.frontend_register = MapSet(@, os[id].fmt_name, id)]

Backend_run_register(r, os, id) ==
    IF count(r.pass_register, os[id].pass_name) # 0
    THEN [r EXCEPT !.fatal = TRUE]
    ELSE LET r1 == [r EXCEPT !.pass_register = MapSet(@, os[id].pass_name, id)]
         IN  IF count(r1.backend_register, os[id].fmt_name) # 0
             THEN [r1 EXCEPT !.fatal = TRUE]
             ELSE [r1 EXCEPT !.backend_register = MapSet(@, os[id].fmt_name, id)]

\* the virtual call first_queued_pass->run_register()
run_register(r, os, id) ==
    CASE os[id].kind = "pass"     -> Pass_run_register(r, os, id)
      [] os[id].kind = "frontend" -> Frontend_run_register(r, os, id)
      [] os[id].kind = "backend"  -> Backend_run_register(r, os, id)

\* Pass::init_register: the queue head advances only after run_register
\* returned
RECURSIVE init_register(_, _)
init_register(r, os) ==
    IF r.first_queued_pass = 0 THEN r
    ELSE LET r1 == run_register(r, os, r.first_queued_pass)
         IN  IF r1.fatal THEN r1
             ELSE init_register(
                    [r1 EXCEPT !.first_queued_pass =
                                   os[r.first_queued_pass].next_queued_pass], os)

\* mutant of done_register: the queue is not looked at
DoneRegisterNoAssert(r) ==
    [r EXCEPT !.frontend_register = EmptyMap,
              !.pass_register = EmptyMap,
              !.backend_register = EmptyMap]

\* Pass::done_register
done_register(r) ==
    [r EXCEPT !.frontend_register = EmptyMap,
              !.pass_register = EmptyMap,
              !.backend_register = EmptyMap,
              !.fatal = (r.first_queued_pass # 0)]

RegState ==
    [pass_register |-> pass_register, frontend_register |-> frontend_register,
     backend_register |-> backend_register,
     first_queued_pass |-> first_queued_pass, fatal |-> FALSE]

----------------------------------------------------------------------------
(* The registry life cycle as a state machine *)

s_a  == <<"a">>
s_b  == <<"b">>
s_eq_a == <<"=","a">>
s_read_a == s_read_ \o s_a
s_write_a == s_write_ \o s_a

CtorNames == {s_a, s_b, s_eq_a, s_read_a, s_write_a}
Kinds == {"pass", "frontend", "backend"}

InitReg ==
    /\ objs = BuiltinObjs
    /\ first_queued_pass = 2
    /\ pass_register = EmptyMap
    /\ frontend_register = EmptyMap
    /\ backend_register = EmptyMap
    /\ dropped = {}
    /\ selection_stack = <<>>
    /\ selected_active_module = <<>>
    /\ echo_mode = FALSE
    /\ trace = <<>>
    /\ steps = 0
    /\ outcome = "ok"
    /\ lastop = [op |-> "static_init"]
    /\ IoInit

Construct(kind, name) ==
    /\ outcome # "fatal"
    /\ Len(objs) < MaxObjs
    /\ objs' = Append(objs, Ctor(kind, name, first_queued_pass))
    /\ first_queued_pass' = Len(objs) + 1
    /\ lastop' = [op |-> "construct"]
    /\ UNCHANGED <<pass_register, frontend_register, backend_register,
                   dropped, outcome, designVars, ioVars>>

InitRegister ==
    /\ outcome # "fatal"
    /\ LET r == init_register(RegState, objs)
       IN  /\ pass_register' = r.pass_register
           /\ frontend_register' = r.frontend_register
           /\ backend_register' = r.backend_register
           /\ first_queued_pass' = r.first_queued_pass
           /\ outcome' = IF r.fatal THEN "fatal" ELSE "ok"
    /\ lastop' = [op |-> "init_register"]
    /\ UNCHANGED <<objs, dropped, designVars, ioVars>>

DoneRegister ==
    /\ outcome # "fatal"
    /\ LET r == done_register(RegState)
       IN  /\ pass_register' = r.pass_register
           /\ frontend_register' = r.frontend_register
           /\ backend_register' = r.backend_register
           /\ first_queued_pass' = r.first_queued_pass
           /\ outcome' = IF r.fatal THEN "fatal" ELSE "ok"
    /\ dropped' = dropped \cup {pass_register[n] : n \in DOMAIN pass_register}
    /\ lastop' = [op |-> "done_register"]
    /\ UNCHANGED <<objs, designVars, ioVars>>

NextReg ==
    \/ \E kind \in Kinds, name \in CtorNames : Construct(kind, name)
    \/ InitRegister
    \/ DoneRegister

SpecReg == InitReg /\ [][NextReg]_vars

----------------------------------------------------------------------------
(* Properties of the registry *)

\* the objects that no done_register has removed
LiveObjs == (1..Len(objs)) \ dropped

OfKind(S, kind) == {i \in S : objs[i].kind = kind}

\* no two objects of S share a name in one of the three namespaces
DistinctNames(S) ==
    \A i, j \in S : i # j =>
        /\ objs[i].pass_name # objs[j].pass_name
        /\ (objs[i].kind = objs[j].kind /\ objs[i].kind # "pass")
               => objs[i].fmt_name # objs[j].fmt_name

ProbeNames ==
    CtorNames \cup {s_help, s_echo, <<>>, s_read_ \o s_b, s_write_ \o s_b,
                    s_read_, <<"c">>}

\* the map holds exactly the objects of S, each under its own key
HoldsExactly(reg, S, key(_)) ==
    /\ DOMAIN reg = {key(i) : i \in S}
    /\ \A i \in S : reg[key(i)] = i
    /\ \A n \in ProbeNames : n \notin {key(i) : i \in S} => count(reg, n) = 0

PassNameOf(i) == objs[i].pass_name
FmtNameOf(i) == objs[i].fmt_name

\* C1: when the descriptors constructed before init_register have pairwise
\* distinct names in each namespace, init_register returns normally, and
\* whenever it returns normally the by-name map holds exactly the names of
\* those descriptors, each mapped to its own descriptor, the frontend map
\* exactly the format names of the frontends, the backend map exactly the
\* format names of the backends, and a lookup of any other name finds
\* nothing.
C1_RegistryExact ==
    lastop.op = "init_register" =>
        /\ DistinctNames(LiveObjs) => outcome = "ok"
        /\ outcome = "ok" =>
            /\ HoldsExactly(pass_register, LiveObjs, PassNameOf)
            /\ HoldsExactly(frontend_register, OfKind(LiveObjs, "frontend"),
                            FmtNameOf)
            /\ HoldsExactly(backend_register, OfKind(LiveObjs, "backend"),
                            FmtNameOf)

\* C1 witness: init_register returned with a plain pass, a frontend and a
\* backend registered, and a probe name that is in no map
C1_Witness ==
    /\ lastop.op = "init_register"
    /\ outcome = "ok"
    /\ OfKind(LiveObjs, "frontend") # {}
    /\ OfKind(LiveObjs, "backend") # {}
    /\ count(pass_register, s_help) = 1
    /\ count(frontend_register, s_a) = 1
    /\ count(pass_register, s_b) = 0

\* the queue, walked from its head
RECURSIVE QueueFrom(_)
QueueFrom(id) ==
    IF id = 0 THEN {} ELSE {id} \cup QueueFrom(objs[id].next_queued_pass)

QueueIds == QueueFrom(first_queued_pass)

\* the three maps are empty
RegistryEmpty ==
    /\ pass_register = EmptyMap
    /\ frontend_register = EmptyMap
    /\ backend_register = EmptyMap

\* two queued descriptors, or a queued one and a registered one, share a
\* name in the by-name map, the frontend map or the backend map
CollisionPending ==
    \/ ~DistinctNames(QueueIds)
    \/ \E i \in QueueIds :
        \/ count(pass_register, objs[i].pass_name) # 0
        \/ objs[i].kind = "frontend"
             /\ count(frontend_register, objs[i].fmt_name) # 0
        \/ objs[i].kind = "backend"
             /\ count(backend_register, objs[i].fmt_name) # 0

KeepsEntries(reg, reg2) ==
    \A n \in DOMAIN reg : n \in DOMAIN reg2 => reg2[n] = reg[n]

\* C2: an init_register that finds a name collision in the by-name map, the
\* frontend map or the backend map ends in the fatal assertion failure,
\* never normally and never in a command error, and no step ever replaces
\* the descriptor an existing registry entry maps to.
C2_CollisionFatal ==
    [][ /\ (lastop'.op = "init_register" /\ CollisionPending)
            => outcome' = "fatal"
        /\ KeepsEntries(pass_register, pass_register')
        /\ KeepsEntries(frontend_register, frontend_register')
        /\ KeepsEntries(backend_register, backend_register') ]_vars

\* C2 witness: init_register failed on a frontend whose derived name
\* read_a is also the name of a plain pass
C2_Witness ==
    /\ lastop.op = "init_register"
    /\ outcome = "fatal"
    /\ \E i, j \in 1..Len(objs) :
        /\ objs[i].kind = "frontend" /\ objs[i].fmt_name = s_a
        /\ objs[j].kind = "pass"
        /\ objs[i].pass_name = s_read_a /\ objs[j].pass_name = s_read_a

\* C12: init_register drains the queue: when it returns the queue is empty
\* and the descriptors it added to the by-name map are exactly the ones
\* that were queued, each under its own name, so that every descriptor not
\* yet torn down is registered; an init_register that finds the queue
\* empty changes nothing.  done_register empties the three maps, leaves
\* the queue alone, and ends in the fatal assertion failure exactly when
\* the queue is not empty.
C12_QueueDrained ==
    /\ [](lastop.op = "init_register" /\ outcome = "ok" =>
            /\ first_queued_pass = 0
            /\ \A i \in LiveObjs :
                  /\ count(pass_register, objs[i].pass_name) = 1
                  /\ pass_register[objs[i].pass_name] = i)
    /\ [][ /\ (lastop'.op = "init_register" /\ outcome' = "ok") =>
               /\ first_queued_pass' = 0
               /\ DOMAIN pass_register' \ DOMAIN pass_register
                     = {objs[i].pass_name : i \in QueueIds}
               /\ \A i \in QueueIds : pass_register'[objs[i].pass_name] = i
               /\ KeepsEntries(pass_register, pass_register')
               /\ first_queued_pass = 0 =>
                     UNCHANGED <<pass_register, frontend_register,
                                 backend_register, objs>>
           /\ (lastop'.op = "done_register" /\ outcome # "fatal") =>
               /\ RegistryEmpty'
               /\ first_queued_pass' = first_queued_pass
               /\ outcome' = IF first_queued_pass # 0 THEN "fatal" ELSE "ok"
         ]_vars

\* C12 witness: a descriptor was constructed after init_register and
\* never promoted, and done_register failed on it with the maps emptied
C12_Witness ==
    /\ lastop.op = "done_register"
    /\ outcome = "fatal"
    /\ RegistryEmpty
    /\ dropped = {1, 2}
    /\ first_queued_pass = 3
    /\ objs[3].next_queued_pass = 0

----------------------------------------------------------------------------
(* C string helpers of the tokenizer *)

WS == {" ", "\t", "\r", "\n"}

\* strspn(s, set): the length of the leading run of characters in set
RECURSIVE strspn(_, _)
strspn(s, set) ==
    IF s # <<>> /\ Head(s) \in set THEN 1 + strspn(Tail(s), set) ELSE 0

\* strcspn(s, set): the length of the leading run of characters not in set
RECURSIVE strcspn(_, _)
strcspn(s, set) ==
    IF s # <<>> /\ Head(s) \notin set THEN 1 + strcspn(Tail(s), set) ELSE 0

\* strtok_r(s, " \t\r\n", &saveptr): the next token and the text after the
\* delimiter that ended it; found is FALSE when strtok_r returns NULL
strtok_r(s, delim) ==
    LET s1 == substr1(s, strspn(s, delim))
        n  == strcspn(s1, delim)
    IN  IF s1 = <<>>
        THEN [found |-> FALSE, tok |-> <<>>, saveptr |-> <<>>]
        ELSE [found |-> TRUE, tok |-> substr(s1, 0, n),
              saveptr |-> substr1(s1, n + 1)]

\* while (strsz > 0 && str[strsz-1] == ';') strsz--, num_semikolon++;
\* mutant of num_semikolon: only the last semicolon is counted and stripped
NumSemikolonOne(str) ==
    IF str # <<>> /\ str[Len(str)] = ";" THEN 1 ELSE 0

RECURSIVE num_semikolon(_)
num_semikolon(str) ==
    IF str # <<>> /\ str[Len(str)] = ";"
    THEN 1 + num_semikolon(SubSeq(str, 1, Len(str) - 1))
    ELSE 0

s_clean == <<"c","l","e","a","n">>
s_purge == <<"-","p","u","r","g","e">>

\* mutant of s_clean_purge: the option is lost
SCleanNoPurge == s_clean

s_clean_purge == s_clean \o <<" ">> \o s_purge
s_on == <<"o","n">>
s_off == <<"o","f","f">>

----------------------------------------------------------------------------
(* The commands other translation units register. Their execute() is not   *)
(* part of register.cc; each name below stands for one way a command can   *)
(* use the design's selection stack and the kernel's entry points.         *)

s_foo == <<"f","o","o">>
s_bar == <<"b","a","r">>
s_baz == <<"b","a","z">>
s_f == <<"f">>      \* touches nothing
s_k == <<"k">>      \* pushes a selection and leaves it on the stack
s_n == <<"n">>      \* pushes a selection and pops it again
s_p == <<"p">>      \* pops a selection it did not push
s_m == <<"m">>      \* runs "k; n" on a module through call_on_module
s_s == <<"s">>      \* runs ["m"] through call_on_selection
s_x == <<"x">>      \* fails with a command error
s_w == <<"w">>      \* runs "p" on a module through call_on_module
s_y == <<"y">>      \* runs "x" through call_on_selection

\* RTLIL::Selection
SelFull == [full_selection |-> TRUE, selected_modules |-> {}]
Sel1 == [full_selection |-> FALSE, selected_modules |-> {<<"A">>, <<"B">>}]
Sel2 == [full_selection |-> FALSE, selected_modules |-> {}]

\* RTLIL::Selection(false) followed by select(module)
SelectionOfModule(module) ==
    [full_selection |-> FALSE, selected_modules |-> {module}]

Modules == {<<"A">>, <<"B">>}

ExternalNames ==
    <<s_clean, s_foo, s_baz, s_f, s_k, s_n, s_p, s_m, s_s, s_x, s_w, s_y>>

\* what the execute() of an external command does, statement by statement
Body(name) ==
    CASE name = s_k -> <<[op |-> "push", sel |-> Sel1]>>
      [] name = s_n -> <<[op |-> "push", sel |-> Sel1], [op |-> "pop"]>>
      [] name = s_p -> <<[op |-> "pop"]>>
      [] name = s_m -> <<[op |-> "call_on_module", module |-> <<"B">>,
                          command |-> s_k \o <<";", " ">> \o s_n]>>
      [] name = s_s -> <<[op |-> "call_on_selection_args", sel |-> Sel2,
                          args |-> <<s_m>>]>>
      [] name = s_x -> <<[op |-> "cmd_error"]>>
      [] name = s_w -> <<[op |-> "call_on_module_args", module |-> <<"A">>,
                          args |-> <<s_p>>]>>
      [] name = s_y -> <<[op |-> "call_on_selection", sel |-> Sel2,
                          command |-> s_x]>>
      [] OTHER -> <<>>

----------------------------------------------------------------------------
(* The dispatcher, the tokenizer and the scoped-call wrappers.             *)
(* m is the record of everything a call can change: the Pass objects, the  *)
(* design, echo_mode, the history, and exc, the exception in flight        *)
(* ("none", "cmd_error" for log_cmd_error, "undefined" after pop_back on   *)
(* an empty vector).  level counts the dispatches in progress and ctx is   *)
(* the wrapper that made the call in progress, if one did.                 *)

Emit(m, e) == [m EXCEPT !.trace = Append(@, e)]

NoCtx == [kind |-> "none"]

\* std::vector::pop_back
pop_back(m) ==
    IF m.selection_stack = <<>>
    THEN [m EXCEPT !.exc = "undefined"]
    ELSE [m EXCEPT !.selection_stack = SubSeq(@, 1, Len(@) - 1)]

\* mutant of unwind: leaked selections stay on the stack
UnwindNothing(m, orig_sel_stack_pos) == m

\* while (design->selection_stack.size() > orig_sel_stack_pos) pop_back();
unwind(m, orig_sel_stack_pos) ==
    IF Len(m.selection_stack) > orig_sel_stack_pos
    THEN [m EXCEPT !.selection_stack = SubSeq(@, 1, orig_sel_stack_pos)]
    ELSE m

\* mutant of cmd_error: the error is logged and not raised
CmdErrorSwallowed(m) == m

\* Pass::cmd_error: logs, prints the help and ends in log_cmd_error
cmd_error(m) == [m EXCEPT !.exc = "cmd_error"]

\* HelpPass::execute: writes to the log only
HelpPass_execute(m, args) == m

\* EchoPass::execute
EchoPass_execute(m, args) ==
    IF Len(args) > 2 THEN cmd_error(m)
    ELSE IF Len(args) = 2
         THEN IF args[2] = s_on THEN [m EXCEPT !.echo_mode = TRUE]
              ELSE IF args[2] = s_off THEN [m EXCEPT !.echo_mode = FALSE]
              ELSE cmd_error(m)
         ELSE m

RECURSIVE Pass_call_args(_, _)
RECURSIVE Pass_call_str(_, _)
RECURSIVE tok_loop(_, _, _)
RECURSIVE RunBody(_, _)
RECURSIVE call_on_selection_str(_, _, _)
RECURSIVE call_on_selection_args(_, _, _)
RECURSIVE call_on_module_str(_, _, _)
RECURSIVE call_on_module_args(_, _, _)
RECURSIVE Frontend_execute(_, _, _)
RECURSIVE Backend_execute(_, _, _)

\* one statement of an external command's execute()
RunStmt(m, st) ==
    CASE st.op = "push" ->
            [m EXCEPT !.selection_stack = Append(@, st.sel)]
      [] st.op = "pop" ->
            IF m.selection_stack = <<>> THEN m ELSE pop_back(m)
      [] st.op = "cmd_error" -> cmd_error(m)
      [] st.op = "call_on_module" ->
            call_on_module_str(m, st.module, st.command)
      [] st.op = "call_on_module_args" ->
            call_on_module_args(m, st.module, st.args)
      [] st.op = "call_on_selection" ->
            call_on_selection_str(m, st.sel, st.command)
      [] st.op = "call_on_selection_args" ->
            call_on_selection_args(m, st.sel, st.args)

RunBody(m, body) ==
    IF body = <<>> \/ m.exc # "none" THEN m
    ELSE RunBody(RunStmt(m, Head(body)), Tail(body))

\* pass_register[args[0]]->execute(args, design), a virtual call
execute(m, id, args) ==
    LET name == m.objs[id].pass_name
    IN  IF m.objs[id].kind = "frontend" THEN Frontend_execute(m, id, args)
        ELSE IF m.objs[id].kind = "backend" THEN Backend_execute(m, id, args)
        ELSE IF name = s_help THEN HelpPass_execute(m, args)
        ELSE IF name = s_echo THEN EchoPass_execute(m, args)
        ELSE RunBody([m EXCEPT !.ctx = NoCtx], Body(name))

\* mutant of after_execute: the consistency check is not run
AfterExecuteNoCheck(m, m4, orig_sel_stack_pos) ==
    LET m5 == unwind(m4, orig_sel_stack_pos)
    IN  IF m4.exc # "none" THEN m4
        ELSE [m5 EXCEPT !.level = m.level, !.ctx = m.ctx]

\* the end of Pass::call(design, args), reached when execute() returned:
\* unwind the selection stack, then design->check().  m is the state at
\* entry, m4 the state execute() left.
after_execute(m, m4, orig_sel_stack_pos) ==
    LET m5 == unwind(m4, orig_sel_stack_pos)
    IN  IF m4.exc # "none" THEN m4 ELSE
        Emit([m5 EXCEPT !.level = m.level, !.ctx = m.ctx],
             [ev |-> "check", level |-> m.level + 1,
              orig |-> orig_sel_stack_pos,
              after_execute |-> Len(m4.selection_stack),
              depth |-> Len(m5.selection_stack)])

\* mutant of Pass_call_args: the dispatcher does not count the call
PassCallArgsNoCount(m, args) ==
    IF Len(args) = 0 \/ (args[1] # <<>> /\ args[1][1] = "#") THEN m
    ELSE
    LET m0 == IF m.echo_mode THEN Emit(m, [ev |-> "echo", args |-> args,
                                              level |-> m.level + 1]) ELSE m
        m1 == Emit(m0, [ev |-> "dispatch", args |-> args, level |-> m.level + 1])
    IN  IF count(pass_register, args[1]) = 0 THEN cmd_error(m1)
        ELSE
        LET id == pass_register[args[1]]
            orig_sel_stack_pos == Len(m1.selection_stack)
            m2 == [m1 EXCEPT !.level = @ + 1]
            m3 == Emit(m2, [ev |-> "execute", args |-> args,
                            level |-> m2.level, ctx |-> m.ctx,
                            stack |-> m2.selection_stack,
                            sam |-> m2.selected_active_module])
        IN  after_execute(m, execute(m3, id, args), orig_sel_stack_pos)

\* Pass::call(RTLIL::Design *design, std::vector<std::string> args)
Pass_call_args(m, args) ==
    IF Len(args) = 0 \/ (args[1] # <<>> /\ args[1][1] = "#") THEN m
    ELSE
    LET m0 == IF m.echo_mode THEN Emit(m, [ev |-> "echo", args |-> args,
                                              level |-> m.level + 1]) ELSE m
        m1 == Emit(m0, [ev |-> "dispatch", args |-> args, level |-> m.level + 1])
    IN  IF count(pass_register, args[1]) = 0 THEN cmd_error(m1)
        ELSE
        LET id == pass_register[args[1]]
            orig_sel_stack_pos == Len(m1.selection_stack)
            m2 == [m1 EXCEPT !.objs[id].call_counter = @ + 1,
                             !.level = @ + 1]
            m3 == Emit(m2, [ev |-> "execute", args |-> args,
                            level |-> m2.level, ctx |-> m.ctx,
                            stack |-> m2.selection_stack,
                            sam |-> m2.selected_active_module])
        IN  after_execute(m, execute(m3, id, args), orig_sel_stack_pos)

\* what follows the flush of a token of n semicolons, m1 being the state
\* the flush left: clean for two, clean -purge for three
after_flush(n, m1) ==
    IF m1.exc # "none" THEN m1
    ELSE IF n = 2 THEN Pass_call_str(m1, s_clean)
    ELSE IF n = 3 THEN Pass_call_str(m1, s_clean_purge)
    ELSE m1

\* mutant of tok_loop: clean and clean -purge follow the flush only when the
\* token had characters before its semicolons
TokLoopCleanNeedsWord(m, s, args) ==
    LET t == strtok_r(s, WS)
    IN  IF m.exc # "none" THEN m
        ELSE IF ~t.found \/ t.tok = <<"#">> THEN Pass_call_args(m, args)
        ELSE IF t.tok[Len(t.tok)] = ";"
        THEN LET n == num_semikolon(t.tok)
                 strsz == Len(t.tok) - n
                 args1 == IF strsz > 0
                          THEN Append(args, substr(t.tok, 0, strsz))
                          ELSE args
             IN  tok_loop(after_flush(IF strsz > 0 THEN n ELSE 1,
                                      Pass_call_args(m, args1)),
                          t.saveptr, <<>>)
        ELSE tok_loop(m, t.saveptr, Append(args, t.tok))

\* mutant of tok_loop: a command error of the flush is caught and the line
\* goes on
TokLoopSwallowsError(m, s, args) ==
    LET t == strtok_r(s, WS)
    IN  IF m.exc # "none" THEN m
        ELSE IF ~t.found \/ t.tok = <<"#">> THEN Pass_call_args(m, args)
        ELSE IF t.tok[Len(t.tok)] = ";"
        THEN LET n == num_semikolon(t.tok)
                 strsz == Len(t.tok) - n
                 args1 == IF strsz > 0
                          THEN Append(args, substr(t.tok, 0, strsz))
                          ELSE args
             IN  tok_loop(after_flush(n,
                              [Pass_call_args(m, args1) EXCEPT
                                  !.exc = IF @ = "cmd_error" THEN "none"
                                          ELSE @]),
                          t.saveptr, <<>>)
        ELSE tok_loop(m, t.saveptr, Append(args, t.tok))

\* the strtok_r loop of Pass::call(design, command) and the final
\* call(design, args)
tok_loop(m, s, args) ==
    LET t == strtok_r(s, WS)
    IN  IF m.exc # "none" THEN m
        ELSE IF ~t.found \/ t.tok = <<"#">> THEN Pass_call_args(m, args)
        ELSE IF t.tok[Len(t.tok)] = ";"
        THEN LET n == num_semikolon(t.tok)
                 strsz == Len(t.tok) - n
                 args1 == IF strsz > 0
                          THEN Append(args, substr(t.tok, 0, strsz))
                          ELSE args
             IN  tok_loop(after_flush(n, Pass_call_args(m, args1)),
                          t.saveptr, <<>>)
        ELSE tok_loop(m, t.saveptr, Append(args, t.tok))

\* the shell passthrough of Pass::call(design, command): the text after
\* '!' and blanks, without trailing CR and LF, goes to system()
RECURSIVE strip_crlf(_)
strip_crlf(s) ==
    IF s # <<>> /\ s[Len(s)] \in {"\r", "\n"}
    THEN strip_crlf(SubSeq(s, 1, Len(s) - 1)) ELSE s

shell(m, s) ==
    LET s1 == substr1(s, 1)
        s2 == strip_crlf(substr1(s1, strspn(s1, {" ", "\t"})))
        m1 == Emit(m, [ev |-> "system", command |-> s2, level |-> m.level])
    IN  IF m.system_ret # 0 THEN [m1 EXCEPT !.exc = "cmd_error"] ELSE m1

\* mutant of Pass_call_str: a leading '#' does not end the call
PassCallStrNoComment(m, command) ==
    LET s == substr1(command, strspn(command, WS))
    IN  IF s = <<>> THEN m
        ELSE IF s[1] = "!" THEN shell(m, s)
        ELSE tok_loop(m, s, <<>>)

\* Pass::call(RTLIL::Design *design, std::string command)
Pass_call_str(m, command) ==
    LET s == substr1(command, strspn(command, WS))
    IN  IF s = <<>> \/ s[1] = "#" THEN m
        ELSE IF s[1] = "!" THEN shell(m, s)
        ELSE tok_loop(m, s, <<>>)

\* the start of the four wrappers: save the active module name (it stays
\* in m), override it and push the selection
scope_enter(m, kind, sam, selection) ==
    [m EXCEPT !.selected_active_module = sam,
              !.selection_stack = Append(@, selection),
              !.ctx = [kind |-> kind, sam |-> sam, sel |-> selection]]

WrapperReturn(m, m4, kind) ==
    Emit(m4, [ev |-> "wrapper_return", kind |-> kind, level |-> m.level,
              stack_before |-> m.selection_stack,
              sam_before |-> m.selected_active_module,
              stack_after |-> m4.selection_stack,
              sam_after |-> m4.selected_active_module])

\* mutant of scope_leave: the active module name is not restored
ScopeLeaveNoRestore(m, m2, kind) ==
    LET m3 == pop_back(m2)
    IN  IF m2.exc # "none" THEN m2
        ELSE IF m3.exc # "none" THEN m3
        ELSE WrapperReturn(m, [m3 EXCEPT !.ctx = m.ctx], kind)

\* mutant of scope_leave: the wrapper pops and restores also when the
\* inner call threw
ScopeLeaveOnError(m, m2, kind) ==
    LET backup_selected_active_module == m.selected_active_module
        m3 == pop_back(m2)
    IN  IF m3.exc = "undefined" THEN m3
        ELSE WrapperReturn(m,
                [m3 EXCEPT !.selected_active_module =
                               backup_selected_active_module,
                           !.ctx = m.ctx], kind)

\* the end of the four wrappers, after the inner call left m2: pop the
\* selection and restore the active module name saved from m
scope_leave(m, m2, kind) ==
    LET backup_selected_active_module == m.selected_active_module
        m3 == pop_back(m2)
    IN  IF m2.exc # "none" THEN m2
        ELSE IF m3.exc # "none" THEN m3
        ELSE WrapperReturn(m,
                [m3 EXCEPT !.selected_active_module =
                               backup_selected_active_module,
                           !.ctx = m.ctx], kind)

\* Pass::call_on_selection(design, selection, std::string command)
call_on_selection_str(m, selection, command) ==
    scope_leave(m,
        Pass_call_str(scope_enter(m, "call_on_selection", <<>>, selection),
                      command),
        "call_on_selection")

\* Pass::call_on_selection(design, selection, std::vector<std::string> args)
call_on_selection_args(m, selection, args) ==
    scope_leave(m,
        Pass_call_args(scope_enter(m, "call_on_selection", <<>>, selection),
                       args),
        "call_on_selection")

\* Pass::call_on_module(design, module, std::string command)
call_on_module_str(m, module, command) ==
    scope_leave(m,
        Pass_call_str(scope_enter(m, "call_on_module", module,
                                  SelectionOfModule(module)), command),
        "call_on_module")

\* Pass::call_on_module(design, module, std::vector<std::string> args)
call_on_module_args(m, module, args) ==
    scope_leave(m,
        Pass_call_args(scope_enter(m, "call_on_module", module,
                                   SelectionOfModule(module)), args),
        "call_on_module")

----------------------------------------------------------------------------
(* Calls into the kernel, from a registry that init_register has filled *)

RECURSIVE ConstructPasses(_, _)
ConstructPasses(os, names) ==
    IF names = <<>> THEN os
    ELSE ConstructPasses(Append(os, PassCtor(Head(names), Len(os))), Tail(names))

CallObjs == ConstructPasses(BuiltinObjs, ExternalNames)

CallRegistry ==
    init_register([pass_register |-> EmptyMap, frontend_register |-> EmptyMap,
                   backend_register |-> EmptyMap,
                   first_queued_pass |-> Len(CallObjs), fatal |-> FALSE],
                  CallObjs)

InitCall ==
    /\ objs = CallObjs
    /\ first_queued_pass = CallRegistry.first_queued_pass
    /\ pass_register = CallRegistry.pass_register
    /\ frontend_register = CallRegistry.frontend_register
    /\ backend_register = CallRegistry.backend_register
    /\ dropped = {}
    /\ selection_stack = <<SelFull>>
    /\ selected_active_module = <<>>
    /\ echo_mode = FALSE
    /\ trace = <<>>
    /\ steps = 0
    /\ outcome = "ok"
    /\ lastop = [op |-> "init_register"]
    /\ IoInit

\* the state a call starts from
Machine(system_ret) ==
    [objs |-> objs, selection_stack |-> selection_stack,
     selected_active_module |-> selected_active_module,
     echo_mode |-> echo_mode, trace |-> <<>>, exc |-> "none", level |-> 0,
     ctx |-> NoCtx, system_ret |-> system_ret,
     current_script_file |-> current_script_file,
     last_here_document |-> last_here_document, next_args |-> next_args,
     streams |-> streams, stdout_stream |-> stdout_stream,
     f |-> NULL, filename |-> <<>>, fmemopen_empty_ok |-> TRUE]

Pre ==
    [objs |-> objs, selection_stack |-> selection_stack,
     selected_active_module |-> selected_active_module]

\* the state a call leaves
Leaves(m, op) ==
    /\ objs' = m.objs
    /\ selection_stack' = m.selection_stack
    /\ selected_active_module' = m.selected_active_module
    /\ echo_mode' = m.echo_mode
    /\ trace' = m.trace
    /\ outcome' = IF m.exc = "none" THEN "ok" ELSE m.exc
    /\ lastop' = op
    /\ steps' = steps + 1
    /\ current_script_file' = m.current_script_file
    /\ last_here_document' = m.last_here_document
    /\ next_args' = m.next_args
    /\ streams' = m.streams
    /\ stdout_stream' = m.stdout_stream
    /\ UNCHANGED <<first_queued_pass, pass_register, frontend_register,
                   backend_register, dropped>>

Running == outcome \in {"ok", "cmd_error"} /\ steps < MaxOps

CallArgs(args) ==
    /\ Running
    /\ Leaves(Pass_call_args(Machine(0), args),
              [op |-> "call_args", args |-> args, pre |-> Pre])

CallString(command, system_ret) ==
    /\ Running
    /\ Leaves(Pass_call_str(Machine(system_ret), command),
              [op |-> "call_str", command |-> command, pre |-> Pre])

CallOnSelectionStr(selection, command) ==
    /\ Running
    /\ Leaves(call_on_selection_str(Machine(0), selection, command),
              [op |-> "call_on_selection", command |-> command,
               sam |-> <<>>, sel |-> selection, pre |-> Pre])

CallOnSelectionArgs(selection, args) ==
    /\ Running
    /\ Leaves(call_on_selection_args(Machine(0), selection, args),
              [op |-> "call_on_selection", args |-> args,
               sam |-> <<>>, sel |-> selection, pre |-> Pre])

CallOnModuleStr(module, command) ==
    /\ Running
    /\ Leaves(call_on_module_str(Machine(0), module, command),
              [op |-> "call_on_module", command |-> command,
               sam |-> module, sel |-> SelectionOfModule(module), pre |-> Pre])

CallOnModuleArgs(module, args) ==
    /\ Running
    /\ Leaves(call_on_module_args(Machine(0), module, args),
              [op |-> "call_on_module", args |-> args,
               sam |-> module, sel |-> SelectionOfModule(module), pre |-> Pre])

Semi(a, b) == a \o <<";", " ">> \o b

ArgVecs ==
    {<<>>, <<s_f>>, <<s_k>>, <<s_n>>, <<s_p>>, <<s_m>>, <<s_s>>, <<s_x>>,
     <<s_w>>, <<s_y>>, <<s_bar>>, <<s_help>>, <<s_echo, s_on>>,
     <<s_echo, s_f>>, <<<<"#", "f">>>>}

CmdStrings ==
    {<<>>, s_n, Semi(s_k, s_n), Semi(s_p, s_f), Semi(s_x, s_f),
     s_k \o <<";", ";">>, Semi(s_m, s_s), Semi(s_echo \o <<" ">> \o s_off, s_w)}

\* what a caller hands to the wrappers
WrapArgVecs == {<<s_n>>, <<s_s>>, <<s_p>>, <<s_x>>, <<s_bar>>}

WrapCmdStrings == {<<>>, Semi(s_k, s_n), Semi(s_m, s_s), Semi(s_p, s_f)}

NextCall ==
    \/ \E args \in ArgVecs : CallArgs(args)
    \/ \E command \in CmdStrings : CallString(command, 0)
    \/ \E command \in WrapCmdStrings : CallOnSelectionStr(Sel1, command)
    \/ \E args \in WrapArgVecs : CallOnSelectionArgs(Sel1, args)
    \/ \E command \in WrapCmdStrings : CallOnModuleStr(<<"A">>, command)
    \/ \E module \in Modules, args \in WrapArgVecs :
          CallOnModuleArgs(module, args)

SpecCall == InitCall /\ [][NextCall]_vars

----------------------------------------------------------------------------
(* Properties of the dispatcher and the wrappers *)

Events(kind) == {i \in DOMAIN trace : trace[i].ev = kind}

NoForeignPop ==
    \A i \in Events("execute") : trace[i].args[1] # s_p

Wrappers == {"call_on_selection", "call_on_module"}

\* C4: a wrapper that returns normally leaves the active module name as it
\* found it; when no command it ran popped a selection it had not pushed,
\* it also leaves the selection stack as it found it, and every command
\* the wrapper dispatched started with the wrapper's active module name
\* (the module's name, or empty) and with the wrapper's selection on top.
C4_WrappersRestore ==
    /\ \A i \in Events("wrapper_return") :
        /\ trace[i].sam_after = trace[i].sam_before
        /\ NoForeignPop => trace[i].stack_after = trace[i].stack_before
    /\ (lastop.op \in Wrappers /\ outcome = "ok") =>
        /\ selected_active_module = lastop.pre.selected_active_module
        /\ NoForeignPop => selection_stack = lastop.pre.selection_stack
    /\ NoForeignPop =>
        \A i \in Events("execute") :
            /\ trace[i].ctx.kind # "none" =>
                /\ trace[i].sam = trace[i].ctx.sam
                /\ trace[i].stack # <<>>
                /\ trace[i].stack[Len(trace[i].stack)] = trace[i].ctx.sel
                /\ trace[i].ctx.kind = "call_on_selection"
                      => trace[i].ctx.sam = <<>>
                /\ trace[i].ctx.kind = "call_on_module"
                      => trace[i].ctx.sel = SelectionOfModule(trace[i].ctx.sam)
            /\ (trace[i].level = 1 /\ lastop.op \in Wrappers) =>
                /\ trace[i].sam = lastop.sam
                /\ trace[i].stack =
                      Append(lastop.pre.selection_stack, lastop.sel)

\* C4 witness: call_on_module ran a command that itself went through
\* call_on_selection and call_on_module again, starting from another active
\* module name, and returned normally
C4_Witness ==
    /\ lastop.op = "call_on_module" /\ outcome = "ok"
    /\ lastop.pre.selected_active_module # <<>>
    /\ lastop.pre.selected_active_module # lastop.sam
    /\ Cardinality(Events("wrapper_return")) >= 3
    /\ NoForeignPop
    /\ \E i \in Events("check") : trace[i].after_execute > trace[i].orig

\* the commands the wrapper of the last call dispatched, in order
WrapperCommands ==
    SelectSeq(trace, LAMBDA e : e.ev = "execute" /\ e.level = 1)

\* the last call was a wrapper whose command popped the selection the
\* wrapper had pushed, and did nothing else to the selection stack
PoppedOwnFrame ==
    /\ lastop.op \in Wrappers
    /\ \E i \in 1..Len(WrapperCommands) :
        /\ WrapperCommands[i].args[1] = s_p
        /\ WrapperCommands[i].stack =
              Append(lastop.pre.selection_stack, lastop.sel)
        /\ \A j \in 1..Len(WrapperCommands) :
              j # i => WrapperCommands[j].args[1] = s_f

\* C16 as stated: a wrapper whose command popped the wrapper's own
\* selection returns with the selection stack it was called with.
C16_PoppedFrameBalanced ==
    (PoppedOwnFrame /\ outcome = "ok") =>
        selection_stack = lastop.pre.selection_stack

\* What the code does for C16: the dispatcher pops only what is above the
\* depth it saved, so when the command popped the wrapper's own selection the wrapper's pop_back
\* removes the selection below it: the wrapper returns with the stack it was
\* called with less its top selection and with the active module name
\* restored, and on a stack that was empty before the call its pop_back acts
\* on an empty vector.  No wrapper returns with a deeper stack than it found.
PoppedFrameLosesOne ==
    /\ PoppedOwnFrame =>
        IF lastop.pre.selection_stack = <<>>
        THEN outcome = "undefined"
        ELSE /\ outcome = "ok"
             /\ selection_stack =
                   SubSeq(lastop.pre.selection_stack, 1,
                          Len(lastop.pre.selection_stack) - 1)
             /\ selected_active_module = lastop.pre.selected_active_module
    /\ \A i \in Events("wrapper_return") :
          Len(trace[i].stack_after) <= Len(trace[i].stack_before)

\* C16 witness: call_on_module ran "p; f" on a stack of one selection and
\* returned with an empty stack
C16_Witness ==
    /\ lastop.op = "call_on_module" /\ outcome = "ok"
    /\ PoppedOwnFrame
    /\ Len(WrapperCommands) = 2
    /\ lastop.pre.selection_stack = <<SelFull>>
    /\ selection_stack = <<>>

\* the last call was a wrapper that a command error left
WrapperThrew == lastop.op \in Wrappers /\ outcome = "cmd_error"

\* C17: a command error that leaves a wrapper skips the wrapper's pop and
\* restore.  The selection the wrapper pushed is still on the stack, above
\* the selections that were there before the call, the wrapper has not
\* returned, and when the error came from a command the wrapper dispatched
\* itself the active module name is still the wrapper's override and its
\* selection is on top.  The same holds for a wrapper called by a command:
\* when the last command executed was dispatched by a wrapper and threw, the
\* design is left with that wrapper's override and selection.
C17_WrappersNotExceptionSafe ==
    /\ WrapperThrew =>
        /\ Len(selection_stack) > Len(lastop.pre.selection_stack)
        /\ SubSeq(selection_stack, 1, Len(lastop.pre.selection_stack) + 1) =
              Append(lastop.pre.selection_stack, lastop.sel)
        /\ \A i \in Events("wrapper_return") : trace[i].level # 0
        /\ trace # <<>>
        /\ trace[Len(trace)].level = 1 =>
            /\ selected_active_module = lastop.sam
            /\ selection_stack =
                  Append(lastop.pre.selection_stack, lastop.sel)
    /\ (outcome = "cmd_error" /\ trace # <<>>) =>
        LET e == trace[Len(trace)]
        IN  (e.ev = "execute" /\ e.ctx.kind # "none") =>
                /\ selected_active_module = e.ctx.sam
                /\ selection_stack = e.stack
                /\ e.stack[Len(e.stack)] = e.ctx.sel

\* C17 witness: call_on_module ran a command that raised a command error,
\* on a design whose active module name was another one
C17_Witness ==
    /\ WrapperThrew
    /\ lastop.op = "call_on_module"
    /\ "args" \in DOMAIN lastop /\ lastop.args = <<s_x>>
    /\ lastop.pre.selected_active_module # lastop.sam
    /\ selected_active_module = lastop.sam
    /\ selection_stack = Append(lastop.pre.selection_stack, lastop.sel)

\* the execute and check events of one nesting level, in order
AtLevel(L) ==
    SelectSeq(trace, LAMBDA e : e.ev \in {"execute", "check"} /\ e.level = L)

Levels == {trace[i].level : i \in DOMAIN trace}

\* C10, as claimed: every dispatch is followed by one run of the check.
C10_CheckAfterEveryDispatch ==
    Cardinality(Events("check")) = Cardinality(Events("dispatch"))

\* C10, amended: every dispatch whose command is found and whose execute
\* returns normally runs the check once, after execute and after the
\* unwind, before it returns; a dispatch that ends in a command error runs
\* no check.
C10_CheckAfterNormalDispatch ==
    /\ \A L \in Levels :
        LET evs == AtLevel(L)
        IN  /\ \A k \in DOMAIN evs :
                 evs[k].ev = IF k % 2 = 1 THEN "execute" ELSE "check"
            /\ outcome = "ok" => Len(evs) % 2 = 0
    /\ \A i \in Events("check") : trace[i].depth <= trace[i].orig
    /\ outcome = "ok" =>
          Cardinality(Events("check")) = Cardinality(Events("dispatch"))
    /\ outcome = "cmd_error" =>
          Cardinality(Events("check")) < Cardinality(Events("dispatch"))

\* C10 witness: nested dispatches returned normally, each with its check,
\* one of them after an unwind
C10_Witness ==
    /\ outcome = "ok"
    /\ \E i, j \in Events("check") :
        /\ trace[i].level = 1 /\ trace[j].level = 3
        /\ trace[j].after_execute > trace[j].depth

\* the last call dispatched a vector whose first element is no command
UnknownCommandCall ==
    /\ lastop.op = "call_args"
    /\ lastop.args # <<>>
    /\ ~(lastop.args[1] # <<>> /\ lastop.args[1][1] = "#")
    /\ count(pass_register, lastop.args[1]) = 0

\* C11: dispatching a non-empty argument vector whose first element is not
\* a registered command name and does not start with '#' ends in a command
\* error, not a fatal one: no command is executed, no call counter
\* changes, the registry gains no entry for the name, and the selection
\* stack and the active module name are as before.  Wherever the lookup
\* fails in a nested dispatch, nothing happens after it.
C11_UnknownCommandError ==
    /\ UnknownCommandCall =>
        /\ outcome = "cmd_error"
        /\ Events("execute") = {} /\ Events("check") = {}
        /\ objs = lastop.pre.objs
        /\ pass_register = CallRegistry.pass_register
        /\ lastop.args[1] \notin DOMAIN pass_register
        /\ selection_stack = lastop.pre.selection_stack
        /\ selected_active_module = lastop.pre.selected_active_module
    /\ \A i \in Events("dispatch") :
          count(pass_register, trace[i].args[1]) = 0 =>
              i = Len(trace) /\ outcome = "cmd_error"

\* C11 witness: an unknown command was dispatched as the second call
C11_Witness ==
    /\ UnknownCommandCall
    /\ lastop.args = <<s_bar>>
    /\ outcome = "cmd_error"
    /\ steps = 2
    /\ trace = <<[ev |-> "dispatch", args |-> <<s_bar>>, level |-> 1]>>

----------------------------------------------------------------------------
(* One command line through Pass::call(design, command) *)

Alphabet == {"f", ";", " ", "\t", "\n", "#", "!"}

\* every string of at most n characters
AllStrings(n) == UNION {[1..k -> Alphabet] : k \in 0..n}

Words == {s_f, s_foo, s_bar, s_baz}

WordSeqs(n) == UNION {[1..k -> Words] : k \in 0..n}

\* the words of ws, one blank between two of them
RECURSIVE JoinWords(_)
JoinWords(ws) ==
    IF ws = <<>> THEN <<>>
    ELSE IF Len(ws) = 1 THEN ws[1]
    ELSE ws[1] \o <<" ">> \o JoinWords(Tail(ws))

RECURSIVE Semis(_)
Semis(n) == IF n = 0 THEN <<>> ELSE <<";">> \o Semis(n - 1)

\* the line "pre... w;...; rest...": the words of pre, a token made of w
\* and n semicolons, the words of rest
ShapeLine(sh) ==
    JoinWords(sh.pre \o <<sh.w \o Semis(sh.n)>> \o sh.rest)

Shapes ==
    [pre : WordSeqs(MaxWords), w : Words \cup {<<>>}, n : 1..4,
     rest : WordSeqs(MaxWords)]

Tokenize(command, system_ret) ==
    /\ steps = 0
    /\ Leaves(Pass_call_str(Machine(system_ret), command),
              [op |-> "call_str", command |-> command, pre |-> Pre])

TokenizeShape(sh) ==
    /\ steps = 0
    /\ Leaves(Pass_call_str(Machine(0), ShapeLine(sh)),
              [op |-> "call_str", command |-> ShapeLine(sh), shape |-> sh,
               pre |-> Pre])

Lines == AllStrings(MaxLineLen)

\* lines of two or more commands, each a word that ends in one, two or
\* three semicolons
Segments == [w : {s_foo, s_bar}, n : 1..3]

SegmentSeqs == UNION {[1..k -> Segments] : k \in 2..MaxSegs}

SegmentLine(ss) ==
    JoinWords([i \in DOMAIN ss |-> ss[i].w \o Semis(ss[i].n)])

TokenizeSegments(ss) ==
    /\ steps = 0
    /\ Leaves(Pass_call_str(Machine(0), SegmentLine(ss)),
              [op |-> "call_str", command |-> SegmentLine(ss), segs |-> ss,
               pre |-> Pre])

NextTok ==
    \/ steps = 0 /\ \E command \in Lines, system_ret \in {0, 1} :
                       Tokenize(command, system_ret)
    \/ steps = 0 /\ \E sh \in Shapes : TokenizeShape(sh)
    \/ steps = 0 /\ \E ss \in SegmentSeqs : TokenizeSegments(ss)

SpecTok == InitCall /\ [][NextTok]_vars

----------------------------------------------------------------------------
(* Properties of the tokenizer *)

\* the argument vectors the tokenizer dispatched, in order
TopDispatches ==
    LET ds == SelectSeq(trace, LAMBDA e : e.ev = "dispatch" /\ e.level = 1)
    IN  [i \in 1..Len(ds) |-> ds[i].args]

IsPrefix(s, t) == Len(s) <= Len(t) /\ SubSeq(t, 1, Len(s)) = s

HasShape == "shape" \in DOMAIN lastop

\* what a line of the shape "pre... w;; rest..." or "pre... w;;; rest..."
\* is to dispatch, given the fixed command that follows the flush
ExpectedDispatches(sh, fixed) ==
    <<Append(sh.pre, sh.w), fixed>>
        \o (IF sh.rest = <<>> THEN <<>> ELSE <<sh.rest>>)

DispatchesAre(expected) ==
    /\ outcome = "ok" => TopDispatches = expected
    /\ outcome = "cmd_error" =>
          TopDispatches # <<>> /\ IsPrefix(TopDispatches, expected)

\* C5: a token that ends in exactly two semicolons and has a non-empty
\* remainder is appended to the current argument vector; that vector is
\* dispatched, then ["clean"], then the rest of the line as one more vector
\* (nothing when the rest is empty), in this order and nothing else.  When
\* a dispatch ends in a command error the later ones do not happen.
C5_TwoSemicolons ==
    (HasShape /\ lastop.shape.n = 2 /\ lastop.shape.w # <<>>) =>
        DispatchesAre(ExpectedDispatches(lastop.shape, <<s_clean>>))

\* C5 witness: "foo bar;; baz" dispatched foo bar, then clean, then baz
C5_Witness ==
    /\ lastop.op = "call_str"
    /\ lastop.command = s_foo \o <<" ">> \o s_bar \o <<";", ";", " ">> \o s_baz
    /\ outcome = "ok"
    /\ TopDispatches = <<<<s_foo, s_bar>>, <<s_clean>>, <<s_baz>>>>

\* C6: a token that ends in exactly three semicolons and has a non-empty
\* remainder is appended to the current argument vector; that vector is
\* dispatched, then ["clean", "-purge"], then the rest of the line; an
\* empty rest causes no further dispatch.
C6_ThreeSemicolons ==
    (HasShape /\ lastop.shape.n = 3 /\ lastop.shape.w # <<>>) =>
        DispatchesAre(ExpectedDispatches(lastop.shape, <<s_clean, s_purge>>))

\* C6 witness: "foo;;;" dispatched foo, then clean -purge, and no more
C6_Witness ==
    /\ lastop.op = "call_str"
    /\ lastop.command = s_foo \o <<";", ";", ";">>
    /\ outcome = "ok"
    /\ TopDispatches = <<<<s_foo>>, <<s_clean, s_purge>>>>
    /\ Cardinality(Events("execute")) = 2

\* the last line had a token of semicolons only
BareSemicolons == HasShape /\ lastop.shape.w = <<>>

\* C18 as stated: a token of one semicolon, or of semicolons only, flushes
\* the current argument vector and dispatches neither clean nor
\* clean -purge.
C18_BareSemicolonsNoClean ==
    (HasShape /\ (lastop.shape.n = 1 \/ lastop.shape.w = <<>>)) =>
        \A i \in 1..Len(TopDispatches) :
            TopDispatches[i] \notin {<<s_clean>>, <<s_clean, s_purge>>}

\* the vector a token flushes: the words before it and its own characters
\* before the semicolons, when it has any
FlushedVector(sh) ==
    IF sh.w = <<>> THEN sh.pre ELSE Append(sh.pre, sh.w)

\* the fixed command that follows the flush of a token of n semicolons
FixedCommand(n) ==
    IF n = 2 THEN <<<<s_clean>>>>
    ELSE IF n = 3 THEN <<<<s_clean, s_purge>>>>
    ELSE <<>>

\* the vectors, none of them empty, that a line of the shape dispatches
SemicolonDispatches(sh) ==
    (IF FlushedVector(sh) = <<>> THEN <<>> ELSE <<FlushedVector(sh)>>)
        \o FixedCommand(sh.n)
        \o (IF sh.rest = <<>> THEN <<>> ELSE <<sh.rest>>)

\* C18: what follows the flush depends on the number of semicolons alone.
\* A token of one semicolon, or of four, flushes the current vector and
\* dispatches nothing else; a token of semicolons only flushes the vector
\* of the words before it (no dispatch when there are none) and then
\* dispatches clean when it has exactly two semicolons and clean -purge
\* when it has exactly three, as a token with characters before them does.
\* The rest of the line follows; a command error ends the line.
C18_SemicolonTokens ==
    (HasShape /\ (lastop.shape.n \in {1, 4} \/ lastop.shape.w = <<>>)) =>
        /\ outcome = "ok" => TopDispatches = SemicolonDispatches(lastop.shape)
        /\ outcome = "cmd_error" =>
              IsPrefix(TopDispatches, SemicolonDispatches(lastop.shape))
        /\ outcome \in {"ok", "cmd_error"}

\* C18 witness: "foo ;;" dispatched foo and then clean
C18_Witness ==
    /\ BareSemicolons
    /\ lastop.command = s_foo \o <<" ", ";", ";">>
    /\ outcome = "ok"
    /\ TopDispatches = <<<<s_foo>>, <<s_clean>>>>

\* the dispatch of the vector ends in a command error: its command is not
\* registered
Fails(v) == count(pass_register, v[1]) = 0

\* the segments of the last line, in order, up to and including the first
\* whose dispatch fails
UpToFirstFailure(segs) ==
    IF \E i \in DOMAIN segs : Fails(segs[i])
    THEN SubSeq(segs, 1, CHOOSE i \in DOMAIN segs :
                            /\ Fails(segs[i])
                            /\ \A j \in 1..(i - 1) : ~Fails(segs[j]))
    ELSE segs

HasSegments == "segs" \in DOMAIN lastop

\* the vectors a line of such segments dispatches when nothing fails
RECURSIVE SegmentDispatches(_)
SegmentDispatches(ss) ==
    IF ss = <<>> THEN <<>>
    ELSE <<<<Head(ss).w>>>> \o FixedCommand(Head(ss).n)
             \o SegmentDispatches(Tail(ss))

\* C20: the segments of a line are dispatched from left to right, each
\* followed by its implicit clean or clean -purge.  The first dispatch that
\* raises a command error is the last thing the line does: no clean for
\* that segment, no later segment, and the call ends in the command
\* error.  A line none of whose dispatches fails ends normally with all of
\* them done.
C20_ErrorAbortsLine ==
    (HasShape \/ HasSegments) =>
        LET segs == IF HasShape THEN SemicolonDispatches(lastop.shape)
                    ELSE SegmentDispatches(lastop.segs)
        IN  /\ TopDispatches = UpToFirstFailure(segs)
            /\ outcome = IF \E i \in DOMAIN segs : Fails(segs[i])
                         THEN "cmd_error" ELSE "ok"
            /\ outcome = "cmd_error" =>
                  /\ trace[Len(trace)].ev = "dispatch"
                  /\ trace[Len(trace)].level = 1
                  /\ Fails(trace[Len(trace)].args)

\* C20 witness: "foo;; bar;; foo;" dispatched foo, clean and bar, bar raised
\* a command error, and neither its clean nor the second foo followed
C20_Witness ==
    /\ HasSegments
    /\ lastop.command =
          s_foo \o <<";", ";", " ">> \o s_bar \o <<";", ";", " ">>
              \o s_foo \o <<";">>
    /\ outcome = "cmd_error"
    /\ TopDispatches = <<<<s_foo>>, <<s_clean>>, <<s_bar>>>>
    /\ Cardinality(Events("execute")) = 2

\* the line is empty, all blanks, or its first non-blank character is '#'
BlankOrComment(line) ==
    \/ \A i \in DOMAIN line : line[i] \in WS
    \/ \E j \in DOMAIN line :
          line[j] = "#" /\ \A i \in 1..(j - 1) : line[i] \in WS

\* C7: a command line that is empty, all blanks or a comment does nothing:
\* no dispatch, no lookup, no execute, no consistency check, no change of
\* a call counter or of the design, and it returns normally.
C7_BlankOrCommentNoDispatch ==
    (lastop.op = "call_str" /\ BlankOrComment(lastop.command)) =>
        /\ trace = <<>>
        /\ outcome = "ok"
        /\ objs = lastop.pre.objs
        /\ selection_stack = lastop.pre.selection_stack
        /\ selected_active_module = lastop.pre.selected_active_module

\* C7 witness: a comment line whose text would otherwise dispatch a command
C7_Witness ==
    /\ lastop.op = "call_str"
    /\ lastop.command = <<" ", "#", "f", ";", ";">>
    /\ trace = <<>>

----------------------------------------------------------------------------
(* Streams: FILE pointers, fgets, fopen, fmemopen, fclose *)

stdout == [kind |-> "stdout"]

\* the FILE object at address id of streams
FilePtr(id) == [kind |-> "FILE", id |-> id]

s_stdout_name == <<"<","s","t","d","o","u","t",">">>
s_dash == <<"-">>
s_here == <<"<","<">>

\* char block[4096]
BlockSize == 4096

RECURSIVE fgets_from(_, _, _, _)
fgets_from(data, pos, room, block) ==
    IF room = 0 \/ pos >= Len(data) THEN [block |-> block, pos |-> pos]
    ELSE IF data[pos + 1] = "\n"
         THEN [block |-> Append(block, "\n"), pos |-> pos + 1]
    ELSE fgets_from(data, pos + 1, room - 1, Append(block, data[pos + 1]))

\* fgets(block, size, stream): at most size-1 characters, up to and
\* including a newline; NULL when no character is left
fgets(size, stream) ==
    LET r == fgets_from(stream.data, stream.pos, size - 1, <<>>)
    IN  [null |-> r.block = <<>>, block |-> r.block, pos |-> r.pos]

\* the file system: the paths fopen can open, and what is in them
s_z == <<"z">>
Files == {s_x, s_z}
FileData(path) == <<"d", "a", "t", "a", ":">> \o path

\* the state of the drivers during a call
IoMachine(fmemopen_empty_ok) ==
    [Machine(0) EXCEPT !.fmemopen_empty_ok = fmemopen_empty_ok]

\* f = fopen(path, mode): NULL when the path cannot be opened
fopen(m, path, mode) ==
    IF path \notin Files THEN [m EXCEPT !.f = NULL]
    ELSE [m EXCEPT !.streams = Append(@, [kind |-> "file", name |-> path,
                                           mode |-> mode, open |-> TRUE,
                                           data |-> IF mode = "r"
                                                    THEN FileData(path)
                                                    ELSE <<>>,
                                           pos |-> 0]),
                   !.f = FilePtr(Len(m.streams) + 1)]

\* f = fmemopen(buf, size, "r"): a read stream over the buffer; a
\* C library may refuse a buffer of size zero
fmemopen(m, buf) ==
    IF buf = <<>> /\ ~m.fmemopen_empty_ok THEN [m EXCEPT !.f = NULL]
    ELSE [m EXCEPT !.streams = Append(@, [kind |-> "mem", name |-> <<>>,
                                           mode |-> "r", open |-> TRUE,
                                           data |-> buf, pos |-> 0]),
                   !.f = FilePtr(Len(m.streams) + 1)]

\* fclose(f)
fclose(m, f) ==
    IF f = NULL THEN [m EXCEPT !.exc = "undefined"]
    ELSE IF f = stdout THEN [m EXCEPT !.stdout_stream.open = FALSE]
    ELSE [m EXCEPT !.streams[f.id].open = FALSE]

\* Pass::cmd_error: prints the help text, then log_cmd_error throws
io_cmd_error(m) == [m EXCEPT !.exc = "cmd_error"]

\* log_error: the process ends
log_error(m) == [m EXCEPT !.exc = "fatal"]

\* arg.substr(0, 1) == "-"
IsOption(arg) == substr(arg, 0, 1) = <<"-">>

----------------------------------------------------------------------------
(* Frontend::extra_args *)

\* std::string::npos stored in an int
npos == -1

\* std::string::find_first_not_of(set)
find_first_not_of(s, set) ==
    IF \A i \in DOMAIN s : s[i] \in set THEN npos
    ELSE (CHOOSE i \in DOMAIN s :
             s[i] \notin set /\ \A j \in 1..(i - 1) : s[j] \in set) - 1

\* the inner loop of the here document: one line of the script, read in
\* blocks until a block ends in '\n' or '\r'
RECURSIVE read_buffer(_, _)
read_buffer(stream, buffer) ==
    LET r == fgets(BlockSize, stream)
    IN  IF r.null THEN [eof |-> TRUE, buffer |-> buffer, pos |-> stream.pos]
        ELSE LET b == buffer \o r.block
             IN  IF b[Len(b)] \in {"\n", "\r"}
                 THEN [eof |-> FALSE, buffer |-> b, pos |-> r.pos]
                 ELSE read_buffer([stream EXCEPT !.pos = r.pos], b)

\* buffer.substr(indent, eot_marker.size()) == eot_marker
MarkerAt(buffer, indent, eot_marker) ==
    substr(buffer, indent, Len(eot_marker)) = eot_marker

\* the outer loop of the here document.  An int indent of -1 becomes, as
\* substr's size_type argument, a position past the end of any string, and
\* std::string::substr throws std::out_of_range.
RECURSIVE here_document(_, _, _)
here_document(stream, eot_marker, doc) ==
    LET r == read_buffer(stream, <<>>)
        indent == find_first_not_of(r.buffer, WS)
    IN  IF r.eof THEN [exc |-> "fatal", doc |-> doc, pos |-> r.pos]
        ELSE IF indent < 0 \/ indent > Len(r.buffer)
        THEN [exc |-> "out_of_range", doc |-> doc, pos |-> r.pos]
        ELSE IF MarkerAt(r.buffer, indent, eot_marker)
        THEN [exc |-> "none", doc |-> doc, pos |-> r.pos]
        ELSE here_document([stream EXCEPT !.pos = r.pos], eot_marker,
                           doc \o r.buffer)

\* the loop over args[i], i > argidx: an option after the filename
OptionAfter(args, argidx) ==
    \E i \in (argidx + 1)..(Len(args) - 1) : IsOption(args[i + 1])

\* args with the filename at argidx taken out
NextArgs(args, argidx) ==
    SubSeq(args, 1, argidx) \o SubSeq(args, argidx + 2, Len(args))

\* what follows the opening of the stream
after_open(m, args, argidx) ==
    IF m.f = NULL THEN io_cmd_error(m)
    ELSE IF OptionAfter(args, argidx) THEN io_cmd_error(m)
    ELSE IF argidx + 1 < Len(args)
    THEN [m EXCEPT !.next_args = NextArgs(args, argidx)]
    ELSE m

\* filename.substr(0, 2) == "<<": the here document
open_here_document(m, args, argidx) ==
    IF ~m.current_script_file.open THEN log_error(m)
    ELSE IF Len(m.filename) <= 2 THEN log_error(m)
    ELSE LET eot_marker == substr1(m.filename, 2)
             h == here_document(m.current_script_file, eot_marker, <<>>)
             m1 == [m EXCEPT !.last_here_document = h.doc,
                             !.current_script_file.pos = h.pos]
         IN  IF h.exc # "none" THEN [m1 EXCEPT !.exc = h.exc]
             ELSE after_open(fmemopen(m1, h.doc), args, argidx)

\* Frontend::extra_args(f, filename, args, argidx); f and filename are
\* reference parameters, returned in m.f and m.filename
Frontend_extra_args(m, f, filename, args, argidx) ==
    LET m0 == [m EXCEPT !.next_args = <<>>, !.f = f, !.filename = filename]
    IN  IF argidx >= Len(args)
        THEN IF f = NULL THEN io_cmd_error(m0) ELSE m0
        ELSE IF IsOption(args[argidx + 1]) THEN io_cmd_error(m0)
        ELSE IF f # NULL THEN io_cmd_error(m0)
        ELSE LET arg == args[argidx + 1]
                 joined == arg = s_here /\ argidx + 1 < Len(args)
                 fname == IF joined THEN arg \o args[argidx + 2] ELSE arg
                 idx == IF joined THEN argidx + 1 ELSE argidx
                 m1 == [m0 EXCEPT !.filename = fname]
             IN  IF substr(fname, 0, 2) = s_here
                 THEN open_here_document(m1, args, idx)
                 ELSE after_open(fopen(m1, fname, "r"), args, idx)

----------------------------------------------------------------------------
(* The drivers' calls *)

IoObjs ==
    Append(Append(BuiltinObjs, FrontendCtor(s_a, Len(BuiltinObjs))),
           BackendCtor(s_a, Len(BuiltinObjs) + 1))

IoRegistry ==
    init_register([pass_register |-> EmptyMap, frontend_register |-> EmptyMap,
                   backend_register |-> EmptyMap,
                   first_queued_pass |-> Len(IoObjs), fatal |-> FALSE],
                  IoObjs)

\* the state after init_register, no script open
InitIo ==
    /\ objs = IoObjs
    /\ first_queued_pass = IoRegistry.first_queued_pass
    /\ pass_register = IoRegistry.pass_register
    /\ frontend_register = IoRegistry.frontend_register
    /\ backend_register = IoRegistry.backend_register
    /\ dropped = {}
    /\ selection_stack = <<SelFull>>
    /\ selected_active_module = <<>>
    /\ echo_mode = FALSE
    /\ trace = <<>>
    /\ steps = 0
    /\ outcome = "ok"
    /\ lastop = [op |-> "init_register"]
    /\ last_here_document = <<>>
    /\ next_args = <<>>
    /\ streams = <<>>
    /\ stdout_stream = [open |-> TRUE, written |-> <<>>]

IoPre ==
    [objs |-> objs, current_script_file |-> current_script_file,
     last_here_document |-> last_here_document, next_args |-> next_args,
     streams |-> streams, stdout_stream |-> stdout_stream]

\* the state a driver's call leaves
IoLeaves(m, op) ==
    /\ objs' = m.objs
    /\ current_script_file' = m.current_script_file
    /\ last_here_document' = m.last_here_document
    /\ next_args' = m.next_args
    /\ streams' = m.streams
    /\ stdout_stream' = m.stdout_stream
    /\ trace' = m.trace
    /\ outcome' = IF m.exc = "none" THEN "ok" ELSE m.exc
    /\ lastop' = op
    /\ steps' = steps + 1
    /\ selection_stack' = m.selection_stack
    /\ selected_active_module' = m.selected_active_module
    /\ echo_mode' = m.echo_mode
    /\ UNCHANGED <<first_queued_pass, pass_register, frontend_register,
                   backend_register, dropped>>

----------------------------------------------------------------------------
(* A frontend reads its input: Frontend::extra_args *)

stdin == [kind |-> "stdin"]
s_stdin_name == <<"<","s","t","d","i","n",">">>

ScriptAlphabet == {"a", "E", " ", "\n", "\r"}

ScriptStrings(n) == UNION {[1..k -> ScriptAlphabet] : k \in 0..n}

s_E == <<"E">>
s_EOT == <<"E", "O", "T">>
s_v == <<"-", "v">>

\* the handler's own option loop: it accepts -v and stops at the first
\* token that is not -v
RECURSIVE parse_options(_, _)
parse_options(args, argidx) ==
    IF argidx < Len(args) /\ args[argidx + 1] = s_v
    THEN parse_options(args, argidx + 1)
    ELSE argidx

\* the lines "a\n", "b\n", "EOT\n"
ExampleScript == <<"a", "\n", "b", "\n", "E", "O", "T", "\n">>

Scripts == ScriptStrings(MaxScriptLen) \cup {ExampleScript}

OpenScript(data) == [open |-> TRUE, data |-> data, pos |-> 0]

SampleScripts == {NoScript, OpenScript(ExampleScript)}

InitFront ==
    /\ InitIo
    /\ current_script_file \in {NoScript} \cup {OpenScript(d) : d \in Scripts}

HereDocArgs ==
    {<<s_read_a, s_here \o s_E>>, <<s_read_a, s_here, s_E>>,
     <<s_read_a, s_here \o s_E, s_x>>, <<s_read_a, s_here>>,
     <<s_read_a, s_here \o s_EOT>>, <<s_read_a, s_here, s_E, s_x>>}

FrontTokens == {s_here \o s_E, s_here, s_E, s_x, s_y, s_v}

FrontArgVecs ==
    {<<s_read_a>> \o t : t \in UNION {[1..k -> FrontTokens] : k \in 0..MaxFrontArgs}}

FrontendExtraArgs(f0, filename0, args, argidx, fmemopen_empty_ok) ==
    /\ steps = 0
    /\ LET m == Frontend_extra_args(IoMachine(fmemopen_empty_ok), f0,
                                    filename0, args, argidx)
       IN  IoLeaves(m, [op |-> "frontend_extra_args", args |-> args,
                        argidx |-> argidx,
                        f0 |-> f0, fmemopen_empty_ok |-> fmemopen_empty_ok,
                        f |-> m.f, filename |-> m.filename, pre |-> IoPre])

NextFront ==
    \/ steps = 0 /\ \E args \in HereDocArgs, ok \in BOOLEAN :
                       FrontendExtraArgs(NULL, <<>>, args, 1, ok)
    \/ steps = 0 /\ current_script_file \in SampleScripts
                 /\ \E args \in FrontArgVecs :
                    \E argidx \in {1, parse_options(args, 1)} :
                       \/ FrontendExtraArgs(NULL, <<>>, args, argidx, TRUE)
                       \/ FrontendExtraArgs(stdin, s_stdin_name, args,
                                            argidx, TRUE)

SpecFront == InitFront /\ [][NextFront]_vars

----------------------------------------------------------------------------
(* Properties of the here document *)

\* the complete lines of a text, each with its "\n"
RECURSIVE LinesOf(_)
LinesOf(data) ==
    IF \A i \in DOMAIN data : data[i] # "\n" THEN <<>>
    ELSE LET k == CHOOSE i \in DOMAIN data :
                     data[i] = "\n" /\ \A j \in 1..(i - 1) : data[j] # "\n"
         IN  <<SubSeq(data, 1, k)>> \o LinesOf(SubSeq(data, k + 1, Len(data)))

RECURSIVE Concat(_)
Concat(ls) == IF ls = <<>> THEN <<>> ELSE Head(ls) \o Concat(Tail(ls))

\* after its leading blanks the line begins with the marker
IsMarkerLine(line, marker) ==
    \E i \in 0..Len(line) :
        /\ \A j \in 1..i : line[j] \in WS
        /\ i + Len(marker) <= Len(line)
        /\ SubSeq(line, i + 1, i + Len(marker)) = marker

IsBlankLine(line) == \A i \in DOMAIN line : line[i] \in WS

\* the marker of the here-document token of args
MarkerOf(args) ==
    IF args[2] = s_here /\ Len(args) >= 3 THEN args[3]
    ELSE substr1(args[2], 2)

ScriptLines == LinesOf(lastop.pre.current_script_file.data)

HasMarkerLine ==
    \E k \in DOMAIN ScriptLines : IsMarkerLine(ScriptLines[k], MarkerOf(lastop.args))

FirstMarkerLine ==
    CHOOSE k \in DOMAIN ScriptLines :
        /\ IsMarkerLine(ScriptLines[k], MarkerOf(lastop.args))
        /\ \A j \in 1..(k - 1) :
              ~IsMarkerLine(ScriptLines[j], MarkerOf(lastop.args))

\* a frontend was given <<MARKER as its filename, with no option after it,
\* while a script was open, and the script has a marker line
HereDocumentCall ==
    /\ lastop.op = "frontend_extra_args"
    /\ lastop.f0 = NULL
    /\ Len(lastop.args) >= 2
    /\ substr(lastop.args[2], 0, 2) = s_here
    /\ MarkerOf(lastop.args) # <<>>
    /\ lastop.pre.current_script_file.open
    /\ ~OptionAfter(lastop.args,
                    IF lastop.args[2] = s_here /\ Len(lastop.args) >= 3
                    THEN 2 ELSE 1)
    /\ HasMarkerLine

\* the lines before the first marker line were captured, the stream f
\* presents them, and the script is positioned after the marker line
Captured ==
    LET k == FirstMarkerLine
        text == Concat(SubSeq(ScriptLines, 1, k - 1))
    IN  /\ outcome = "ok"
        /\ last_here_document = text
        /\ lastop.f \notin {NULL, stdin}
        /\ streams[lastop.f.id].kind = "mem"
        /\ streams[lastop.f.id].data = text
        /\ streams[lastop.f.id].pos = 0
        /\ current_script_file.pos = Len(Concat(SubSeq(ScriptLines, 1, k)))

\* C8: when a frontend's filename is <<MARKER while a script is open, then
\* for every sequence of script lines before the first marker line, empty
\* and whitespace-only lines included, the captured text is exactly those
\* lines, the marker line is left out, the input stream presents that text
\* and the script is read up to just after the marker line.  (A marker
\* line is taken here as the code takes it: a line that begins with the
\* marker after its leading blanks; the C library is one whose fmemopen
\* accepts an empty text.)
C8_HereDocumentCapture ==
    (HereDocumentCall /\ lastop.fmemopen_empty_ok) => Captured

\* C8, the case of the example: lines "a\n", "b\n", "EOT\n" with marker EOT
\* capture "a\nb\n"
C8_Witness ==
    /\ HereDocumentCall
    /\ lastop.pre.current_script_file.data = ExampleScript
    /\ lastop.args = <<s_read_a, s_here \o s_EOT>>
    /\ Captured
    /\ last_here_document = <<"a", "\n", "b", "\n">>

\* What the code does for C8: the capture is as stated when no line
\* before the marker line is empty or all blanks and the C library's
\* fmemopen accepts the captured text; a blank line ends the call in
\* std::out_of_range with the lines before it captured.
HereDocumentWithoutBlankLines ==
    HereDocumentCall =>
        LET k == FirstMarkerLine
        IN  IF \E j \in 1..(k - 1) : IsBlankLine(ScriptLines[j])
            THEN outcome = "out_of_range"
            ELSE IF k = 1 /\ ~lastop.fmemopen_empty_ok
            THEN outcome = "cmd_error" /\ last_here_document = <<>>
            ELSE Captured

\* the line without its leading blanks and without the line end
RECURSIVE Content(_)
Content(line) ==
    IF line = <<>> THEN <<>>
    ELSE IF line[1] \in WS THEN Content(Tail(line))
    ELSE IF line[Len(line)] \in {"\n", "\r"}
    THEN Content(SubSeq(line, 1, Len(line) - 1))
    ELSE line

EqualsMarker(line, marker) == Content(line) = marker

\* C19: the here-document ends at the first line whose content, leading
\* blanks stripped, equals the marker, and only there: the captured text is
\* every line before that one, a line that begins with the marker and goes
\* on with other characters included.
C19_StopsOnlyAtMarkerLine ==
    (HereDocumentCall /\ outcome = "ok") =>
        \E k \in DOMAIN ScriptLines :
            /\ EqualsMarker(ScriptLines[k], MarkerOf(lastop.args))
            /\ \A j \in 1..(k - 1) :
                  ~EqualsMarker(ScriptLines[j], MarkerOf(lastop.args))
            /\ last_here_document = Concat(SubSeq(ScriptLines, 1, k - 1))
            /\ current_script_file.pos = Len(Concat(SubSeq(ScriptLines, 1, k)))

\* C19, the failing case: with marker E the script lines "Ea\n", "E\n" end
\* the here-document at "Ea\n", which is not captured
C19_Witness ==
    /\ HereDocumentCall /\ outcome = "ok"
    /\ lastop.args = <<s_read_a, s_here \o s_E>>
    /\ lastop.pre.current_script_file.data = <<"E", "a", "\n", "E", "\n">>
    /\ lastop.pre.current_script_file.pos = 0
    /\ last_here_document = <<>>
    /\ current_script_file.pos = 3

----------------------------------------------------------------------------
(* Properties of the continuation *)

\* extra_args opened a stream for a filename of the last call's args
ConsumedFilename ==
    /\ lastop.op = "frontend_extra_args"
    /\ lastop.f0 = NULL
    /\ outcome = "ok"

\* the place in args (from 1) of the first token of the filename
FileAt == lastop.argidx + 1

\* the number of tokens that make up the filename: two for a here
\* document given as "<<" and a marker, else one
FileTokens ==
    IF lastop.args[FileAt] = s_here /\ Len(lastop.args) > FileAt THEN 2 ELSE 1

\* args without the tokens from place a to place b
Without(args, a, b) == SubSeq(args, 1, a - 1) \o SubSeq(args, b + 1, Len(args))

\* C14: when extra_args consumes the filename and more arguments follow
\* it, the continuation is the arguments before the filename followed by
\* the arguments after it; no token of the filename, a here document's
\* "<<" and marker given as two tokens included, is in the continuation;
\* one filename is consumed per call, and the continuation is empty when
\* nothing follows the filename.
C14_ContinuationSplice ==
    ConsumedFilename =>
        /\ Len(streams) = Len(lastop.pre.streams) + 1
        /\ next_args =
              IF Len(lastop.args) >= FileAt + FileTokens
              THEN Without(lastop.args, FileAt, FileAt + FileTokens - 1)
              ELSE <<>>

\* C14, the case of a one-token filename after an option: the
\* continuation keeps the option and drops the filename
C14_Witness ==
    /\ ConsumedFilename
    /\ lastop.args = <<s_read_a, s_v, s_x, s_E>>
    /\ lastop.argidx = 2
    /\ next_args = <<s_read_a, s_v, s_E>>

\* What the code does for C14: the continuation drops the one token at
\* the index the loop has reached, which for a here document given as
\* two tokens is the marker; the "<<" stays in the continuation.
ContinuationDropsLastFileToken ==
    ConsumedFilename =>
        /\ Len(streams) = Len(lastop.pre.streams) + 1
        /\ next_args =
              IF Len(lastop.args) >= FileAt + FileTokens
              THEN Without(lastop.args, FileAt + FileTokens - 1,
                           FileAt + FileTokens - 1)
              ELSE <<>>

----------------------------------------------------------------------------
(* Backend::extra_args and Backend::execute *)

\* the for loop of Backend::extra_args; f and filename are in m
RECURSIVE backend_args_loop(_, _, _)
backend_args_loop(m, args, argidx) ==
    IF argidx >= Len(args) THEN m
    ELSE LET arg == args[argidx + 1]
         IN  IF IsOption(arg) /\ arg # s_dash THEN io_cmd_error(m)
             ELSE IF m.f # NULL THEN io_cmd_error(m)
             ELSE IF arg = s_dash
             THEN backend_args_loop([m EXCEPT !.filename = s_stdout_name,
                                              !.f = stdout],
                                    args, argidx + 1)
             ELSE LET m1 == fopen([m EXCEPT !.filename = arg], arg, "w")
                  IN  IF m1.f = NULL THEN io_cmd_error(m1)
                      ELSE backend_args_loop(m1, args, argidx + 1)

\* if (f == NULL) { filename = "<stdout>"; f = stdout; }
default_stdout(m1) ==
    IF m1.exc # "none" THEN m1
    ELSE IF m1.f = NULL
    THEN [m1 EXCEPT !.filename = s_stdout_name, !.f = stdout]
    ELSE m1

\* Backend::extra_args(f, filename, args, argidx); f and filename are
\* reference parameters, returned in m.f and m.filename
Backend_extra_args(m, f, filename, args, argidx) ==
    default_stdout(backend_args_loop(
                       [m EXCEPT !.f = f, !.filename = filename],
                       args, argidx))

\* fprintf(f, ...): the handler writes the design to the stream f
write_design(m1) ==
    LET m == Emit(m1, [ev |-> "write", f |-> m1.f, filename |-> m1.filename,
                       level |-> m1.level])
    IN  IF m1.exc # "none" THEN m1
        ELSE IF m.f = NULL THEN [m EXCEPT !.exc = "undefined"]
        ELSE IF m.f = stdout
        THEN [m EXCEPT !.stdout_stream.written = Append(@, m.filename)]
        ELSE [m EXCEPT !.streams[m.f.id].data = Append(@, m.filename)]

\* the format's handler execute(f, filename, args, design) of a backend
\* without options of its own: it resolves the destination with
\* extra_args and writes the design
Backend_execute_fp(m, f, filename, args) ==
    write_design(Backend_extra_args(m, f, filename, args, 1))

\* if (f != stdout) fclose(f);
close_unless_stdout(m1) ==
    IF m1.exc # "none" THEN m1
    ELSE IF m1.f # stdout THEN fclose(m1, m1.f)
    ELSE m1

\* mutant of Backend_execute: the stream is closed whatever it is
BackendExecuteCloseAlways(m, id, args) ==
    LET m0 == [m EXCEPT !.objs[id].call_counter = @ + 1]
        m1 == Backend_execute_fp(m0, NULL, <<>>, args)
    IN  IF m1.exc # "none" THEN m1 ELSE fclose(m1, m1.f)

\* Backend::execute(args, design) of the backend at address id
Backend_execute(m, id, args) ==
    close_unless_stdout(
        Backend_execute_fp([m EXCEPT !.objs[id].call_counter = @ + 1],
                           NULL, <<>>, args))

----------------------------------------------------------------------------
(* A backend writes its output *)

s_o == <<"-", "o">>

BackTokens == {s_dash, s_x, s_y, s_z, s_o}

BackArgVecs ==
    {<<s_write_a>> \o t : t \in UNION {[1..k -> BackTokens] : k \in 0..MaxBackArgs}}

InitBack == InitIo /\ current_script_file = NoScript

BackendExecute(args) ==
    /\ outcome = "ok"
    /\ steps < MaxOps
    /\ LET m == Backend_execute(IoMachine(TRUE), pass_register[args[1]], args)
       IN  IoLeaves(m, [op |-> "backend_execute", args |-> args, f |-> m.f,
                        filename |-> m.filename, pre |-> IoPre])

NextBack == \E args \in BackArgVecs : BackendExecute(args)

SpecBack == InitBack /\ [][NextBack]_vars

----------------------------------------------------------------------------
(* Properties of the backend driver *)

\* the tokens after the command name
Destination == SubSeq(lastop.args, 2, Len(lastop.args))

\* C9: a backend invoked with no destination token writes to standard
\* output and the filename recorded is "<stdout>"; a destination token "-"
\* gives the same; Backend::execute leaves standard output open, and no
\* other stream is opened.
C9_BackendStdoutDefault ==
    (lastop.op = "backend_execute" /\ Destination \in {<<>>, <<s_dash>>}) =>
        /\ outcome = "ok"
        /\ lastop.f = stdout
        /\ lastop.filename = s_stdout_name
        /\ trace = <<[ev |-> "write", f |-> stdout, filename |-> s_stdout_name,
                       level |-> 0]>>
        /\ stdout_stream.written =
              Append(lastop.pre.stdout_stream.written, s_stdout_name)
        /\ stdout_stream.open
        /\ streams = lastop.pre.streams
        /\ objs[pass_register[s_write_a]].call_counter =
              lastop.pre.objs[pass_register[s_write_a]].call_counter + 1

\* C9 witness: after a backend wrote to a file and closed it, one invoked
\* with no destination wrote to standard output, which is still open
C9_Witness ==
    /\ lastop.op = "backend_execute"
    /\ Destination = <<>>
    /\ lastop.f = stdout
    /\ stdout_stream.open
    /\ stdout_stream.written = <<s_stdout_name>>
    /\ Len(streams) = 1
    /\ ~streams[1].open

----------------------------------------------------------------------------
(* Frontend::execute(args, design) and the formats' handlers *)

s_g == <<"g">>      \* a format whose handler fails after reading its input
s_i == <<"i">>      \* a format whose handler dispatches another frontend
s_read_g == s_read_ \o s_g
s_read_i == s_read_ \o s_i

\* what the stream f presents
StreamData(m, f) == IF f.kind = "FILE" THEN m.streams[f.id].data ELSE <<>>

\* the handler reads the stream f to its end
read_stream(m) ==
    IF m.f.kind = "FILE"
    THEN [m EXCEPT !.streams[m.f.id].pos = Len(m.streams[m.f.id].data)]
    ELSE m

\* the frontend call the handler of the format "i" makes
IncludeArgs == <<s_a, s_x>>

RECURSIVE Frontend_frontend_call(_, _, _, _)

\* the format's handler execute(f, filename, args, design): it parses its
\* options, resolves its input with extra_args and reads it; the handler
\* of "g" then raises a command error, the handler of "i" calls another
\* frontend through Frontend::frontend_call
\* m1 is the state extra_args left
read_input(id, args, argidx, m1) ==
    LET m2 == Emit(read_stream(m1),
                   [ev |-> "read", id |-> id, args |-> args,
                    options |-> SubSeq(args, 2, argidx),
                    filename |-> m1.filename,
                    content |-> StreamData(m1, m1.f),
                    pending |-> m1.next_args, level |-> m1.level])
        fmt == m1.objs[id].fmt_name
    IN  IF m1.exc # "none" THEN m1
        ELSE IF fmt = s_g THEN io_cmd_error(m2)
        ELSE IF fmt = s_i
        THEN [Frontend_frontend_call(m2, NULL, <<>>, IncludeArgs)
                 EXCEPT !.f = m1.f, !.filename = m1.filename]
        ELSE m2

Frontend_execute_fp(m, id, f, filename, args) ==
    read_input(id, args, parse_options(args, 1),
               Frontend_extra_args(m, f, filename, args,
                                   parse_options(args, 1)))

RECURSIVE frontend_loop(_, _, _)

\* the end of one iteration, m1 being the state the handler left:
\* args = next_args; fclose(f); while (!args.empty())
while_args(id, m1) ==
    LET m2 == fclose(m1, m1.f)
    IN  IF m1.exc # "none" THEN m1
        ELSE IF m2.exc # "none" THEN m2
        ELSE IF m1.next_args = <<>> THEN m2
        ELSE frontend_loop(m2, id, m1.next_args)

\* the loop body is about to call execute(f, std::string(), args, design)
handler_call(m, id, args) ==
    Emit(m, [ev |-> "handler", id |-> id, args |-> args, level |-> m.level])

\* mutant of frontend_loop: the continuation is left for the next time
FrontendLoopOnce(m, id, args) ==
    LET m0 == handler_call([m EXCEPT !.next_args = <<>>,
                                     !.objs[id].call_counter = @ + 1],
                           id, args)
        m1 == Frontend_execute_fp(m0, id, NULL, <<>>, args)
    IN  IF m1.exc # "none" THEN m1 ELSE fclose(m1, m1.f)

\* the do ... while loop of Frontend::execute
frontend_loop(m, id, args) ==
    while_args(id, Frontend_execute_fp(
                       handler_call([m EXCEPT !.next_args = <<>>,
                                              !.objs[id].call_counter = @ + 1],
                                    id, args),
                       id, NULL, <<>>, args))

\* Frontend::execute(args, design) of the frontend at address id
Frontend_execute(m, id, args) ==
    LET m0 == Emit(m, [ev |-> "frontend_execute", id |-> id, args |-> args,
                       next_args |-> m.next_args, level |-> m.level])
    IN  IF m.next_args # <<>> THEN log_error(m0)
        ELSE frontend_loop(m0, id, args)

\* design->check() at the end of frontend_call, reached when the
\* frontend returned
design_check(m1) ==
    IF m1.exc # "none" THEN m1
    ELSE Emit(m1, [ev |-> "design_check", level |-> m1.level])

\* Frontend::frontend_call(design, f, filename, args)
Frontend_frontend_call(m, f, filename, args) ==
    IF Len(args) = 0 THEN m
    ELSE IF count(frontend_register, args[1]) = 0 THEN io_cmd_error(m)
    ELSE
    LET id == frontend_register[args[1]]
        counted == [m EXCEPT !.objs[id].call_counter = @ + 1]
    IN  design_check(
            IF f # NULL \/ filename = s_dash
            THEN Frontend_execute_fp(counted, id,
                     IF f # NULL THEN f ELSE stdin,
                     IF f # NULL THEN filename ELSE s_stdin_name, args)
            ELSE Frontend_execute(m, id,
                     IF filename # <<>> THEN Append(args, filename)
                     ELSE args))

----------------------------------------------------------------------------
(* Frontends dispatched by name *)

DrvObjs ==
    Append(Append(IoObjs, FrontendCtor(s_g, Len(IoObjs))),
           FrontendCtor(s_i, Len(IoObjs) + 1))

DrvRegistry ==
    init_register([pass_register |-> EmptyMap, frontend_register |-> EmptyMap,
                   backend_register |-> EmptyMap,
                   first_queued_pass |-> Len(DrvObjs), fatal |-> FALSE],
                  DrvObjs)

InitDrv ==
    /\ objs = DrvObjs
    /\ first_queued_pass = DrvRegistry.first_queued_pass
    /\ pass_register = DrvRegistry.pass_register
    /\ frontend_register = DrvRegistry.frontend_register
    /\ backend_register = DrvRegistry.backend_register
    /\ dropped = {}
    /\ selection_stack = <<SelFull>>
    /\ selected_active_module = <<>>
    /\ echo_mode = FALSE
    /\ trace = <<>>
    /\ steps = 0
    /\ outcome = "ok"
    /\ lastop = [op |-> "init_register"]
    /\ IoInit

DrvTokens == {s_v, s_x, s_z, s_y}

DrvNames == {s_read_a, s_read_g, s_read_i}

\* what the first dispatch of a behaviour is given
DrvArgVecs ==
    {<<n>> \o t : n \in DrvNames,
                  t \in UNION {[1..k -> DrvTokens] : k \in 0..MaxDrvArgs}}

\* what a later dispatch is given
AgainArgVecs == {<<s_read_a, s_x>>, <<s_read_g, s_x, s_z>>, <<s_read_a>>}

FrontendDispatch(args) ==
    /\ Running
    /\ Leaves(Pass_call_args(Machine(0), args),
              [op |-> "call_args", args |-> args, pre |-> Pre,
               next_args |-> next_args, streams |-> streams])

\* plain passes and a backend, dispatched by name
OtherArgVecs ==
    {<<s_help>>, <<s_echo>>, <<s_echo, s_off>>, <<s_echo, s_x>>,
     <<s_write_a>>, <<s_write_a, s_x>>, <<s_write_a, s_dash>>,
     <<s_write_a, s_v>>, <<s_write_a, s_x, s_z>>}

NextDrv ==
    \/ steps = 0 /\ \E args \in DrvArgVecs : FrontendDispatch(args)
    \/ steps > 0 /\ \E args \in AgainArgVecs : FrontendDispatch(args)
    \/ steps = 0 /\ \E args \in OtherArgVecs : FrontendDispatch(args)

SpecDrv == InitDrv /\ [][NextDrv]_vars

----------------------------------------------------------------------------
(* Properties of the frontend driver *)

\* C13: the pending continuation is empty on every entry of
\* Frontend::execute(args, design), so its entry assertion holds in every
\* sequence of frontend dispatches: also in a dispatch that follows one
\* aborted by a command error raised after extra_args had populated the
\* continuation, and in a frontend dispatched from inside another
\* frontend's handler while the outer one has a continuation pending.
C13_NextArgsEmptyOnEntry ==
    \A i \in Events("frontend_execute") : trace[i].next_args = <<>>

\* C13, the case of the aborted dispatch: a frontend was dispatched after
\* a dispatch that a command error had ended with a continuation pending
C13_Witness ==
    /\ lastop.op = "call_args"
    /\ steps = 2
    /\ lastop.next_args # <<>>
    /\ Events("frontend_execute") # {}

\* What the code does for C13: Frontend::execute returns normally only
\* with the continuation empty; a command error raised by a handler after
\* extra_args leaves the continuation as extra_args set it, and the entry
\* assertion of a Frontend::execute that starts with a continuation pending
\* fails fatally.
NextArgsEmptyAfterNormalReturn ==
    /\ outcome = "ok" => next_args = <<>>
    /\ \A i \in Events("frontend_execute") :
          trace[i].next_args # <<>> => i = Len(trace) /\ outcome = "fatal"
    /\ (lastop.op = "call_args" /\ lastop.next_args = <<>>) =>
          \A i \in Events("frontend_execute") :
              (\A j \in 1..(i - 1) : j \notin Events("frontend_execute"))
                  => trace[i].next_args = <<>>

\* the number of leading -v tokens after the command name
LeadingOptions(args) ==
    Cardinality({i \in 1..(Len(args) - 1) :
                    \A j \in 1..i : args[j + 1] = s_v})

\* the tokens after the leading options
FileTokensOf(args) == SubSeq(args, LeadingOptions(args) + 2, Len(args))

\* the last call dispatched read_a with leading options and then k >= 1
\* filenames that fopen can open
FilesCall ==
    /\ lastop.op = "call_args"
    /\ lastop.next_args = <<>>
    /\ lastop.args # <<>>
    /\ lastop.args[1] = s_read_a
    /\ FileTokensOf(lastop.args) # <<>>
    /\ \A i \in DOMAIN FileTokensOf(lastop.args) :
          FileTokensOf(lastop.args)[i] \in Files

\* what the handlers of the dispatched frontend read, in order
TopReads == SelectSeq(trace, LAMBDA e : e.ev = "read" /\ e.level = 1)

\* C15: the loop of Frontend::execute ends: for leading options followed
\* by k >= 1 filenames that all open, with a handler that calls extra_args
\* once at the first non-option and returns normally, the handler runs
\* exactly k times, once per filename from left to right with the same
\* leading options, each continuation is one token shorter than the
\* vector before it, and the loop stops with the continuation empty and
\* every stream it opened closed.
C15_FrontendLoopTerminates ==
    FilesCall =>
        LET opts == SubSeq(lastop.args, 2, LeadingOptions(lastop.args) + 1)
            files == FileTokensOf(lastop.args)
            k == Len(files)
        IN  /\ outcome = "ok"
            /\ Len(TopReads) = k
            /\ \A i \in 1..k :
                /\ TopReads[i].filename = files[i]
                /\ TopReads[i].content = FileData(files[i])
                /\ TopReads[i].options = opts
                /\ TopReads[i].args = <<s_read_a>> \o opts \o SubSeq(files, i, k)
                /\ TopReads[i].pending =
                      IF i = k THEN <<>>
                      ELSE <<s_read_a>> \o opts \o SubSeq(files, i + 1, k)
                /\ i < k => Len(TopReads[i].pending) = Len(TopReads[i].args) - 1
            /\ next_args = <<>>
            /\ Len(streams) = Len(lastop.streams) + k
            /\ \A s \in (Len(lastop.streams) + 1)..Len(streams) :
                  ~streams[s].open

\* C15 witness: read_a -v x z ran the handler twice, on x and then on z
C15_Witness ==
    /\ FilesCall
    /\ lastop.args = <<s_read_a, s_v, s_x, s_z>>
    /\ outcome = "ok"
    /\ Len(TopReads) = 2
    /\ TopReads[1].filename = s_x /\ TopReads[2].filename = s_z
    /\ TopReads[2].args = <<s_read_a, s_v, s_z>>

----------------------------------------------------------------------------
(* Properties of the invocation counters *)

\* the last call was a dispatch whose command name was found
ResolvedDispatch ==
    /\ lastop.op = "call_args"
    /\ lastop.args # <<>>
    /\ ~(lastop.args[1] # <<>> /\ lastop.args[1][1] = "#")
    /\ count(pass_register, lastop.args[1]) # 0

\* the descriptor the last call dispatched
Dispatched == pass_register[lastop.args[1]]

\* by how much the last call raised the counter of the descriptor at id
Raised(id) == objs[id].call_counter - lastop.pre.objs[id].call_counter

\* the iterations of the driver loop of the frontend at id in the last call
Iterations(id) ==
    Cardinality({i \in Events("handler") : trace[i].id = id})

\* C21: no call lowers a call counter.  A dispatch whose command is found
\* raises the counter of a plain pass by exactly 1 and leaves every other
\* counter as it was; it raises the counter of a frontend by 1 plus the
\* number of iterations its driver loop started, which is 1 plus the
\* number of filenames when they all open, and the counter of any other
\* frontend only by the iterations of that frontend's own loop, when the
\* handler called it; it raises the counter of a backend by exactly 2.
\* This holds however the dispatch ends.
C21_CountersGrowByFixedAmounts ==
    /\ "pre" \in DOMAIN lastop =>
          \A j \in DOMAIN objs :
              objs[j].call_counter >= lastop.pre.objs[j].call_counter
    /\ ResolvedDispatch =>
        /\ objs[Dispatched].kind = "pass" =>
            /\ Raised(Dispatched) = 1
            /\ \A j \in DOMAIN objs : j # Dispatched => Raised(j) = 0
        /\ objs[Dispatched].kind = "frontend" =>
            /\ Raised(Dispatched) = Iterations(Dispatched) + 1
            /\ outcome = "ok" => Iterations(Dispatched) >= 1
            /\ \A j \in DOMAIN objs :
                  j # Dispatched =>
                      Raised(j) = IF objs[j].kind = "frontend"
                                  THEN Iterations(j) ELSE 0
            /\ FilesCall =>
                  Raised(Dispatched) = Len(FileTokensOf(lastop.args)) + 1
        /\ objs[Dispatched].kind = "backend" =>
            /\ Raised(Dispatched) = 2
            /\ \A j \in DOMAIN objs : j # Dispatched => Raised(j) = 0

\* C21 witness: read_a x z x ran its loop three times and raised the
\* counter of read_a by 4
C21_Witness ==
    /\ ResolvedDispatch
    /\ lastop.args = <<s_read_a, s_x, s_z, s_x>>
    /\ objs[Dispatched].kind = "frontend"
    /\ outcome = "ok"
    /\ Iterations(Dispatched) = 3
    /\ Raised(Dispatched) = 4
    /\ objs[Dispatched].call_counter = 4

====
